---- MODULE Spec2Model ----
(***************************************************************************)
(* Model of the DRTA learner: timed regions (tAPTA.py), the incremental    *)
(* Min-3RTA minimiser and its conversion to a TDRTA (Min3RTA.py), the      *)
(* colouring constraints (Encoding.py) and the search loop, the region     *)
(* optimiser and the verifier (test_encoding.py).                          *)
(*                                                                         *)
(* Timestamps are rationals n/Den, stored as the numerator n.  Region      *)
(* bounds are whole numbers (the code builds them with int()), Inf stands  *)
(* for float('inf').                                                       *)
(***************************************************************************)
EXTENDS Integers, Sequences, FiniteSets, TLC

\* ------------------------------------------------------------------ bounds
Den == 3
MaxT == 3
NumSymbols == 1
MaxLen == 2
MaxSamples == 3
LearnSamples == 2
LearnEvents == 3
MaxSizes == 3
MaxBound == 3
FineDen == 2000
MaxWhole == 3
MaxTau == 7
MaxPositive == 1
MaxNegative == 1

\* ------------------------------------------------------------------ values
Inf == 1000000
None == -1
MAX_DEPTH == 1000
max_sizes == 100
root == 0

Symbols == 0..(NumSymbols - 1)
Times == 0..MaxT
Events == Symbols \X Times
Traces == UNION {[1..n -> Events] : n \in 0..MaxLen}

ACCEPT == TRUE
REJECT == FALSE

Min(a, b) == IF a <= b THEN a ELSE b
Max(a, b) == IF a >= b THEN a ELSE b

\* ------------------------------------------------------------------ Region
Region(lower, upper, lower_inclusive, upper_inclusive) ==
  [lower |-> lower, upper |-> upper,
   lower_inclusive |-> lower_inclusive, upper_inclusive |-> upper_inclusive]

NoRegion == Region(None, None, FALSE, FALSE)

\* Region.contains for a value given in units of 1/d
containsAt(r, value, d) ==
  LET lower_check == IF r.lower_inclusive THEN value >= r.lower * d
                                           ELSE value > r.lower * d
      upper_check == IF r.upper = Inf THEN TRUE
                     ELSE IF r.upper_inclusive THEN value <= r.upper * d
                                               ELSE value < r.upper * d
  IN lower_check /\ upper_check

contains(r, value) == containsAt(r, value, Den)

\* Region.__str__: bracket, lower, upper ("inf" printed for float('inf')), bracket
str(r) ==
  <<IF r.lower_inclusive THEN "[" ELSE "(",
    r.lower,
    IF r.upper # Inf THEN r.upper ELSE -2,
    IF r.upper_inclusive THEN "]" ELSE ")">>

\* ------------------------------------------------------------------ State, TAPTA
\* a state of the TAPTA; its id is its place in T.states, counted from 0
State == [is_accepting |-> FALSE, is_rejecting |-> FALSE, transitions |-> <<>>]

\* self.transitions[(symbol, region)] = target_state
State_add_transition(state, symbol, region, target_state) ==
  LET T == state.transitions
      hits == {j \in 1..Len(T) : T[j].symbol = symbol /\ T[j].region = region}
  IN IF hits = {}
     THEN [state EXCEPT !.transitions =
             Append(@, [symbol |-> symbol, region |-> region, target |-> target_state])]
     ELSE [state EXCEPT !.transitions[CHOOSE j \in hits : TRUE].target = target_state]

get_transition(state, symbol, region) ==
  LET T == state.transitions
      hits == {j \in 1..Len(T) : T[j].symbol = symbol /\ T[j].region = region}
  IN IF hits = {} THEN None
     ELSE T[CHOOSE j \in hits : \A h \in hits : j <= h].target

mark_as_accepting(state) == [state EXCEPT !.is_accepting = TRUE, !.is_rejecting = FALSE]
mark_as_rejecting(state) == [state EXCEPT !.is_rejecting = TRUE, !.is_accepting = FALSE]

\* TAPTA.__init__: the initial state is state 0
TAPTA == [states |-> <<State>>]

create_state(T) == [T EXCEPT !.states = Append(@, State)]

delta(T, state, symbol, region) == get_transition(T.states[state + 1], symbol, region)

TAPTA_add_transition(T, source_state, symbol, region, target_state) ==
  [T EXCEPT !.states[source_state + 1] =
     State_add_transition(@, symbol, region, target_state)]

\* ------------------------------------------------------------------ BuildTimedAPTA
\* int(tau) + (1 if tau > int(tau) else 0) for tau = n/Den
Ceiling(tau) == tau \div Den + (IF tau % Den # 0 THEN 1 ELSE 0)

\* kappa: the largest rounded-up timestamp of the traces of S, 0 without any
Kappa(S) ==
  LET reached == {0} \cup UNION {{Ceiling(S[i][j][2]) : j \in 1..Len(S[i])} : i \in 1..Len(S)}
  IN CHOOSE k \in reached : \A o \in reached : o <= k

\* a list of the open intervals only
RegionsWithoutPoints(kappa) ==
  [j \in 1..(kappa + 1) |->
     IF j = kappa + 1 THEN Region(kappa, Inf, FALSE, FALSE)
     ELSE Region(j - 1, j, FALSE, FALSE)]

\* [0,0], (0,1), [1,1], ..., [kappa,kappa], (kappa,inf)
RegionList(kappa) ==
  [j \in 1..(2 * kappa + 2) |->
     IF j = 2 * kappa + 2 THEN Region(kappa, Inf, FALSE, FALSE)
     ELSE IF j % 2 = 1 THEN Region((j - 1) \div 2, (j - 1) \div 2, TRUE, TRUE)
     ELSE Region(j \div 2 - 1, j \div 2, FALSE, FALSE)]

\* the first region of the list that contains tau, None (NoRegion) without one
FindRegion(Regions, tau) ==
  LET hits == {j \in 1..Len(Regions) : contains(Regions[j], tau)}
  IN IF hits = {} THEN NoRegion
     ELSE Regions[CHOOSE j \in hits : \A h \in hits : j <= h]

\* the walk of one trace from state q, creating what is missing: <<T, final state>>
RECURSIVE WalkTrace(_, _, _, _, _)
WalkTrace(T, Regions, omega, i, q) ==
  IF i > Len(omega) THEN <<T, q>>
  ELSE LET sigma == omega[i][1]
           tau == omega[i][2]
           I == FindRegion(Regions, tau)
           T1 == IF delta(T, q, sigma, I) = None
                 THEN TAPTA_add_transition(create_state(T), q, sigma, I, Len(T.states))
                 ELSE T
       IN WalkTrace(T1, Regions, omega, i + 1, delta(T1, q, sigma, I))

\* the body of "for omega in S"
ProcessOmega(T, Regions, omega, in_positive) ==
  LET w == WalkTrace(T, Regions, omega, 1, 0)
  IN [w[1] EXCEPT !.states[w[2] + 1] =
        IF in_positive THEN mark_as_accepting(@) ELSE mark_as_rejecting(@)]

\* ------------------------------------------------------------------ RegionTreeNode
RegionTreeNode ==
  [is_accepting |-> FALSE, is_rejecting |-> FALSE, transitions |-> <<>>,
   children |-> <<>>, is_merged |-> FALSE]

InSeq(x, s) == \E i \in 1..Len(s) : s[i] = x
IndexOf(x, s) == CHOOSE i \in 1..Len(s) : s[i] = x /\ \A j \in 1..(i - 1) : s[j] # x
RemoveAt(s, i) == SubSeq(s, 1, i - 1) \o SubSeq(s, i + 1, Len(s))

\* dict[(symbol, region)] = target: an existing key keeps its position
DictSet(transitions, symbol, region, target) ==
  IF \E i \in 1..Len(transitions) :
        transitions[i].symbol = symbol /\ transitions[i].region = region
  THEN [i \in 1..Len(transitions) |->
          IF transitions[i].symbol = symbol /\ transitions[i].region = region
          THEN [transitions[i] EXCEPT !.target = target] ELSE transitions[i]]
  ELSE Append(transitions, [symbol |-> symbol, region |-> region, target |-> target])

DictDel(transitions, symbol, region) ==
  SelectSeq(transitions, LAMBDA t : ~(t.symbol = symbol /\ t.region = region))

_are_regions_adjacent_or_overlapping(region1, region2) ==
  LET has_overlap ==
        \/ (region1.lower <= region2.upper /\ region1.upper >= region2.lower)
        \/ (region2.lower <= region1.upper /\ region2.upper >= region1.lower)
      is_adjacent ==
        \/ (region1.upper = region2.lower
              /\ (region1.upper_inclusive \/ region2.lower_inclusive))
        \/ (region2.upper = region1.lower
              /\ (region2.upper_inclusive \/ region1.lower_inclusive))
  IN has_overlap \/ is_adjacent

\* a merge that takes the flags of a shared bound from its first argument
MergeFirstFlags(region1, region2) ==
  IF ~_are_regions_adjacent_or_overlapping(region1, region2) THEN NoRegion
  ELSE LET lower == Min(region1.lower, region2.lower)
           upper == Max(region1.upper, region2.upper)
       IN Region(lower, upper,
                 IF region1.lower = lower THEN region1.lower_inclusive
                                          ELSE region2.lower_inclusive,
                 IF region1.upper = upper THEN region1.upper_inclusive
                                          ELSE region2.upper_inclusive)

_merge_regions(region1, region2) ==
  IF ~_are_regions_adjacent_or_overlapping(region1, region2) THEN NoRegion
  ELSE LET lower == Min(region1.lower, region2.lower)
           upper == Max(region1.upper, region2.upper)
           lower_inclusive ==
             \/ (region1.lower = lower /\ region1.lower_inclusive)
             \/ (region2.lower = lower /\ region2.lower_inclusive)
           upper_inclusive ==
             \/ (region1.upper = upper /\ region1.upper_inclusive)
             \/ (region2.upper = upper /\ region2.upper_inclusive)
       IN Region(lower, upper, lower_inclusive, upper_inclusive)

\* `merged_region = None` right after each call of _merge_regions
merged_region_reset(merged_region) == NoRegion

add_transition(node, symbol, region, target_node) ==
  LET T == node.transitions
      m(i) == merged_region_reset(_merge_regions(T[i].region, region))
      hits == {i \in 1..Len(T) :
                 T[i].symbol = symbol /\ T[i].target = target_node /\ m(i) # NoRegion}
  IN IF hits # {}
     THEN LET i == CHOOSE j \in hits : \A h \in hits : j <= h
          IN [node EXCEPT !.transitions =
                DictSet(DictDel(T, T[i].symbol, T[i].region), T[i].symbol, m(i), target_node)]
     ELSE [node EXCEPT
             !.transitions = DictSet(T, symbol, region, target_node),
             !.children = IF InSeq(target_node, @) THEN @ ELSE Append(@, target_node)]

has_children(node) == Len(node.children) > 0

last_child(node) ==
  IF ~has_children(node) THEN None ELSE node.children[Len(node.children)]

\* upper - lower in floating point: inf minus anything finite is inf
RangeOf(r) == IF r.upper = Inf THEN Inf ELSE r.upper - r.lower

IsPoint(r) == r.lower = r.upper /\ r.lower_inclusive /\ r.upper_inclusive

_is_more_specific_region(region1, region2) ==
  IF region1 = NoRegion \/ region2 = NoRegion THEN region1 # NoRegion
  ELSE IF RangeOf(region1) < RangeOf(region2) THEN TRUE
  ELSE IF RangeOf(region1) > RangeOf(region2) THEN FALSE
  ELSE IsPoint(region1) /\ ~IsPoint(region2)

RECURSIVE BestMatch(_, _, _, _, _)
BestMatch(T, i, symbol, time_value, best) ==
  IF i > Len(T) THEN best
  ELSE IF T[i].symbol = symbol /\ contains(T[i].region, time_value)
          /\ (best.match = None \/ _is_more_specific_region(T[i].region, best.region))
       THEN BestMatch(T, i + 1, symbol, time_value,
                      [match |-> T[i].target, region |-> T[i].region])
       ELSE BestMatch(T, i + 1, symbol, time_value, best)

last_child_with_symbol(node, symbol, time_value) ==
  BestMatch(node.transitions, 1, symbol, time_value,
            [match |-> None, region |-> NoRegion]).match

\* ------------------------------------------------------------------ Min3RTA
Min3RTA0 == [nodes |-> <<>>, register |-> <<>>]

NodeOf(rta, id) == rta.nodes[id + 1]
SetNode(rta, id, node) == [rta EXCEPT !.nodes[id + 1] = node]
next_node_id(rta) == Len(rta.nodes)

create_node(rta) == [rta EXCEPT !.nodes = Append(@, RegionTreeNode)]

InRegister(rta, id) == \E i \in 1..Len(rta.register) : rta.register[i].key = id
RegisterGet(rta, id) ==
  rta.register[CHOOSE i \in 1..Len(rta.register) : rta.register[i].key = id].val
RegisterSet(register, id, val) ==
  IF \E i \in 1..Len(register) : register[i].key = id
  THEN [i \in 1..Len(register) |->
          IF register[i].key = id THEN [key |-> id, val |-> val] ELSE register[i]]
  ELSE Append(register, [key |-> id, val |-> val])
RegisterDel(register, id) == SelectSeq(register, LAMBDA e : e.key # id)

get_real_node_id(rta, node_id) ==
  IF InRegister(rta, node_id) /\ RegisterGet(rta, node_id) # node_id
  THEN RegisterGet(rta, node_id) ELSE node_id

replace_last_child(rta, self, new_target_node) ==
  IF ~has_children(NodeOf(rta, self)) THEN rta
  ELSE LET r1 == [rta EXCEPT !.nodes[new_target_node + 1].is_merged = TRUE]
           node == NodeOf(r1, self)
           old_target_node == node.children[Len(node.children)]
           index == IndexOf(old_target_node, node.children)
       IN SetNode(r1, self,
            [node EXCEPT
               !.transitions = [i \in 1..Len(@) |->
                  IF @[i].target = old_target_node
                  THEN [@[i] EXCEPT !.target = new_target_node] ELSE @[i]],
               !.children = [@ EXCEPT ![index] = new_target_node]])

SymbolSet(node) == {node.transitions[i].symbol : i \in 1..Len(node.transitions)}

Successors(rta, node, symbol) ==
  {<<get_real_node_id(rta, node.transitions[i].target), str(node.transitions[i].region)>> :
     i \in {j \in 1..Len(node.transitions) : node.transitions[j].symbol = symbol}}

is_equivalent_to(rta, self, other_node) ==
  LET a == NodeOf(rta, self)
      b == NodeOf(rta, other_node)
  IN /\ a.is_accepting = b.is_accepting
     /\ a.is_rejecting = b.is_rejecting
     /\ SymbolSet(a) = SymbolSet(b)
     /\ \A symbol \in SymbolSet(a) :
          Successors(rta, a, symbol) = Successors(rta, b, symbol)

\* one pass of the loop over the source node's transitions (a snapshot S)
RECURSIVE MergeLoop(_, _, _, _)
MergeLoop(rta, S, i, target_node) ==
  IF i > Len(S) THEN rta
  ELSE
    LET symbol == S[i].symbol
        region == S[i].region
        real_next_node == get_real_node_id(rta, S[i].target)
        T == NodeOf(rta, target_node).transitions
        m(j) == merged_region_reset(_merge_regions(T[j].region, region))
        hits == {j \in 1..Len(T) :
                   /\ T[j].symbol = symbol
                   /\ get_real_node_id(rta, T[j].target) = real_next_node
                   /\ m(j) # NoRegion}
        tn == NodeOf(rta, target_node)
        next ==
          IF hits # {}
          THEN LET j == CHOOSE h \in hits : \A g \in hits : h <= g
               IN [tn EXCEPT !.transitions =
                     DictSet(DictDel(T, T[j].symbol, T[j].region),
                             T[j].symbol, m(j), T[j].target)]
          ELSE [tn EXCEPT
                  !.transitions = DictSet(T, symbol, region, real_next_node),
                  !.children = IF InSeq(real_next_node, @) THEN @
                               ELSE Append(@, real_next_node)]
    IN MergeLoop(SetNode(rta, target_node, next), S, i + 1, target_node)

\* the value returned is "False" on a label conflict and otherwise "None":
\* the function ends without a return statement
_merge_node_transitions(rta, source_node, target_node) ==
  LET s == NodeOf(rta, source_node)
      t == NodeOf(rta, target_node)
  IN IF s.is_accepting # t.is_accepting \/ s.is_rejecting # t.is_rejecting
     THEN [rta |-> rta, result |-> "False"]
     ELSE [rta |-> MergeLoop(rta, s.transitions, 1, target_node), result |-> "None"]

\* Python truth value of the result of _merge_node_transitions
Truthy(result) == result = "True"

\* a register that is never searched
FirstEquivalentNone(rta, child_node) == None

FirstEquivalent(rta, child_node) ==
  LET hits == {i \in 1..Len(rta.register) :
                 is_equivalent_to(rta, child_node, rta.register[i].key)}
  IN IF hits = {} THEN None
     ELSE rta.register[CHOOSE i \in hits : \A h \in hits : i <= h].key

RECURSIVE replace_or_register(_, _, _, _)
replace_or_register(rta, state_id, visited, depth) ==
  IF depth > MAX_DEPTH THEN rta
  ELSE IF state_id \in visited THEN rta
  ELSE IF ~has_children(NodeOf(rta, state_id)) THEN rta
  ELSE
    LET child_node == last_child(NodeOf(rta, state_id))
        r1 == IF has_children(NodeOf(rta, child_node))
              THEN replace_or_register(rta, child_node, visited \cup {state_id}, depth + 1)
              ELSE rta
        registered_id == FirstEquivalent(r1, child_node)
    IN IF registered_id # None
       THEN LET r2 == replace_last_child(r1, state_id, registered_id)
                r3 == [r2 EXCEPT !.register = RegisterSet(@, child_node, registered_id)]
                mr == _merge_node_transitions(r3, child_node, registered_id)
            IN IF ~Truthy(mr.result)
               THEN replace_last_child(
                      [mr.rta EXCEPT !.register = RegisterDel(@, child_node)],
                      state_id, child_node)
               ELSE mr.rta
       ELSE [r1 EXCEPT !.register = RegisterSet(@, child_node, child_node)]

\* a mapping that knows no unbounded region
SuffixRegionBounded(time, max_time, den) ==
  IF time % den = 0 THEN Region(time \div den, time \div den, TRUE, TRUE)
  ELSE Region(time \div den, time \div den + 1, FALSE, FALSE)

\* the region add_suffix chooses for time/den when the largest time is max_time/den;
\* abs(time - max_time) < 0.001 is compared after clearing the denominators
SuffixRegionAt(time, max_time, den) ==
  LET is_integer == time % den = 0
      is_max_time == 1000 * (IF time >= max_time THEN time - max_time
                             ELSE max_time - time) < den
      int == time \div den
  IN IF is_integer
     THEN IF is_max_time THEN Region(int, Inf, TRUE, FALSE)
                         ELSE Region(int, int, TRUE, TRUE)
     ELSE IF is_max_time THEN Region(int, Inf, FALSE, FALSE)
                         ELSE Region(int, int + 1, FALSE, FALSE)

SuffixRegion(time, max_time) == SuffixRegionAt(time, max_time, Den)

RECURSIVE add_suffix(_, _, _, _, _, _)
add_suffix(rta, current_id, sample, from_index, is_positive, max_time) ==
  IF from_index > Len(sample)
  THEN IF is_positive
       THEN [rta EXCEPT !.nodes[current_id + 1].is_accepting = TRUE]
       ELSE [rta EXCEPT !.nodes[current_id + 1].is_rejecting = TRUE]
  ELSE LET symbol == sample[from_index][1]
           time == sample[from_index][2]
           region == SuffixRegion(time, max_time)
           new_id == next_node_id(rta)
           r1 == create_node(rta)
           r2 == SetNode(r1, current_id,
                         add_transition(NodeOf(r1, current_id), symbol, region, new_id))
       IN add_suffix(r2, new_id, sample, from_index + 1, is_positive, max_time)

\* the common-prefix walk of add: <<node reached, events consumed>>
RECURSIVE Prefix(_, _, _, _)
Prefix(rta, sample, pos, current_id) ==
  IF pos > Len(sample) THEN <<current_id, pos>>
  ELSE LET next_node == last_child_with_symbol(NodeOf(rta, current_id),
                                               sample[pos][1], sample[pos][2])
       IN IF next_node = None THEN <<current_id, pos>>
          ELSE Prefix(rta, sample, pos + 1, next_node)

add(rta, sample, is_positive, max_time) ==
  LET p == Prefix(rta, sample, 1, root)
      current_id == p[1]
      r1 == IF has_children(NodeOf(rta, current_id))
            THEN replace_or_register(rta, current_id, {}, 0)
            ELSE rta
  IN add_suffix(r1, current_id, sample, p[2], is_positive, max_time)

\* ------------------------------------------------------------------ sorting
\* Python's comparison of two tuples of (symbol, time) pairs
RECURSIVE TupleLess(_, _, _)
TupleLess(a, b, i) ==
  IF i > Len(a) THEN i <= Len(b)
  ELSE IF i > Len(b) THEN FALSE
  ELSE IF a[i] = b[i] THEN TupleLess(a, b, i + 1)
  ELSE a[i][1] < b[i][1] \/ (a[i][1] = b[i][1] /\ a[i][2] < b[i][2])

KeyLess(x, y) == TupleLess(x.sample, y.sample, 1)

\* list.sort(key=...): a stable sort, here by insertion from the left
RECURSIVE InsertSorted(_, _)
InsertSorted(sorted, x) ==
  IF sorted = <<>> THEN <<x>>
  ELSE IF KeyLess(x, sorted[Len(sorted)])
       THEN Append(InsertSorted(SubSeq(sorted, 1, Len(sorted) - 1), x), sorted[Len(sorted)])
       ELSE Append(sorted, x)

\* build_from_samples without all_samples.sort
SortSamplesKeepOrder(all) == all

RECURSIVE SortSamples(_)
SortSamples(all) ==
  IF all = <<>> THEN <<>>
  ELSE InsertSorted(SortSamples(SubSeq(all, 1, Len(all) - 1)), all[Len(all)])

Tagged(samples, type) == [i \in 1..Len(samples) |-> [sample |-> samples[i], type |-> type]]

SampleTimes(samples) ==
  UNION {{samples[i][j][2] : j \in 1..Len(samples[i])} : i \in 1..Len(samples)}

SetMax(S) == IF S = {} THEN 0 ELSE CHOOSE m \in S : \A x \in S : x <= m

MaxTimeOf(positive, negative) == SetMax(SampleTimes(positive) \cup SampleTimes(negative))

RECURSIVE AddAll(_, _, _, _)
AddAll(rta, all, i, max_time) ==
  IF i > Len(all) THEN rta
  ELSE AddAll(add(rta, all[i].sample, all[i].type, max_time), all, i + 1, max_time)

build_from_samples(positive, negative) ==
  LET max_time == MaxTimeOf(positive, negative)
      all == SortSamples(Tagged(positive, ACCEPT) \o Tagged(negative, REJECT))
  IN replace_or_register(AddAll(create_node(Min3RTA0), all, 1, max_time), root, {}, 0)

\* ------------------------------------------------------------------ TDRTA
\* _sample_reaches_node: the first transition in dictionary order whose region
\* contains the timestamp is taken
RECURSIVE ReachedNode(_, _, _, _)
ReachedNode(min_3rta, sample, i, current_node_id) ==
  IF i > Len(sample) THEN current_node_id
  ELSE LET T == NodeOf(min_3rta, current_node_id).transitions
           hits == {j \in 1..Len(T) :
                      T[j].symbol = sample[i][1] /\ contains(T[j].region, sample[i][2])}
       IN IF hits = {} THEN None
          ELSE ReachedNode(min_3rta, sample, i + 1,
                           T[CHOOSE j \in hits : \A h \in hits : j <= h].target)

_sample_reaches_node(min_3rta, sample, target_node_id) ==
  ReachedNode(min_3rta, sample, 1, root) = target_node_id

RECURSIVE SumSeq(_)
SumSeq(s) == IF s = <<>> THEN 0 ELSE s[1] + SumSeq(Tail(s))

\* second timestamps of the samples of length two
SecondTimes(samples) ==
  LET two == SelectSeq(samples, LAMBDA sample : Len(sample) = 2)
  IN [i \in 1..Len(two) |-> two[i][2][2]]

\* a resolution that only counts the samples
ResolveByMajority(positive_samples, negative_samples) ==
  IF Len(positive_samples) >= Len(negative_samples) /\ positive_samples # <<>>
  THEN "accepting" ELSE "rejecting"

\* pos_avg > neg_avg * 1.5 is compared here after clearing the denominators
_resolve_conflict_by_time_patterns(positive_samples, negative_samples) ==
  LET pos_second_times == SecondTimes(positive_samples)
      neg_second_times == SecondTimes(negative_samples)
  IN IF positive_samples = <<>> THEN "rejecting"
     ELSE IF negative_samples = <<>> THEN "accepting"
     ELSE IF pos_second_times = <<>> \/ neg_second_times = <<>>
          THEN IF Len(positive_samples) >= Len(negative_samples)
               THEN "accepting" ELSE "rejecting"
     ELSE IF 2 * SumSeq(pos_second_times) * Len(neg_second_times)
               > 3 * SumSeq(neg_second_times) * Len(pos_second_times)
          THEN "accepting" ELSE "rejecting"

\* a pass that leaves the nodes in conflict in both sets
KeepConflicts(min_3rta, d, positive_samples, negative_samples) == d

\* one pass of "Resolve conflicts between accepting and rejecting states"
ResolveConflicts(min_3rta, d, positive_samples, negative_samples) ==
  LET conflicts == d.accepting \cap d.rejecting
      resolution(q) ==
        _resolve_conflict_by_time_patterns(
          SelectSeq(positive_samples, LAMBDA sample : _sample_reaches_node(min_3rta, sample, q)),
          SelectSeq(negative_samples, LAMBDA sample : _sample_reaches_node(min_3rta, sample, q)))
  IN [d EXCEPT
        !.accepting = @ \ {q \in conflicts : resolution(q) # "accepting"},
        !.rejecting = @ \ {q \in conflicts : resolution(q) = "accepting"}]

\* the edges that leave the root, and no others
EdgesOfRootOnly(min_3rta, alphabet_map, node_id, i, edge_labels) ==
  LET trans == NodeOf(min_3rta, root).transitions
  IN [j \in 1..Len(trans) |->
        [source |-> get_real_node_id(min_3rta, root),
         target |-> get_real_node_id(min_3rta, trans[j].target),
         symbol |-> alphabet_map[trans[j].symbol],
         region_str |-> str(trans[j].region)]]

\* the edges of the multigraph in the order they are added, duplicates of
\* (source, target, symbol, region string) dropped
RECURSIVE EdgesFrom(_, _, _, _, _)
EdgesFrom(min_3rta, alphabet_map, node_id, i, edge_labels) ==
  IF node_id >= Len(min_3rta.nodes) THEN edge_labels
  ELSE LET T == NodeOf(min_3rta, node_id).transitions
       IN IF i > Len(T)
          THEN EdgesFrom(min_3rta, alphabet_map, node_id + 1, 1, edge_labels)
          ELSE LET e == [source |-> get_real_node_id(min_3rta, node_id),
                         target |-> get_real_node_id(min_3rta, T[i].target),
                         symbol |-> alphabet_map[T[i].symbol],
                         region_str |-> str(T[i].region)]
               IN EdgesFrom(min_3rta, alphabet_map, node_id, i + 1,
                            IF InSeq(e, edge_labels) THEN edge_labels
                            ELSE Append(edge_labels, e))

RECURSIVE RealNodes(_, _, _)
RealNodes(min_3rta, node_id, node_list) ==
  IF node_id >= Len(min_3rta.nodes) THEN node_list
  ELSE LET real_id == get_real_node_id(min_3rta, node_id)
       IN RealNodes(min_3rta, node_id + 1,
                    IF InSeq(real_id, node_list) THEN node_list
                    ELSE Append(node_list, real_id))

NoDRTA == [nodes |-> <<>>, alphabet |-> <<>>, accepting |-> {}, rejecting |-> {},
           edge_labels |-> <<>>, registered_nodes |-> {}]

convert_to_3DRTA(min_3rta, positive_samples, negative_samples) ==
  LET ids == 0..(Len(min_3rta.nodes) - 1)
      alphabet == UNION {SymbolSet(NodeOf(min_3rta, n)) : n \in ids}
      alphabet_map == [sym \in alphabet |-> Cardinality({o \in alphabet : o < sym})]
      d == [nodes |-> RealNodes(min_3rta, 0, <<>>),
            alphabet |-> alphabet_map,
            accepting |-> {get_real_node_id(min_3rta, n) :
                             n \in {v \in ids : NodeOf(min_3rta, v).is_accepting}},
            rejecting |-> {get_real_node_id(min_3rta, n) :
                             n \in {v \in ids : NodeOf(min_3rta, v).is_rejecting}},
            edge_labels |-> EdgesFrom(min_3rta, alphabet_map, 0, 1, <<>>),
            registered_nodes |-> {n \in ids : NodeOf(min_3rta, n).is_merged}]
  IN ResolveConflicts(min_3rta,
       ResolveConflicts(min_3rta, d, positive_samples, negative_samples),
       positive_samples, negative_samples)

build_min_3rta(positive_samples, negative_samples) ==
  LET min_3rta == build_from_samples(positive_samples, negative_samples)
  IN [min_3rta |-> min_3rta,
      drta |-> convert_to_3DRTA(min_3rta, positive_samples, negative_samples)]

\* ------------------------------------------------------------------ Encoding
\* A model of the solver is [x, z, y, used]: x[n] the set of colours c with
\* node_n_color_c true, z the set of colours c with accepting_c true, y the set of
\* <<symbol, region string, color1, color2>> with that trans_ variable true, used the
\* set of colours c with color_c_used true.
range(n) == 0..(n - 1)

\* the distinct (symbol, region string) labels in the order of edge_labels
RECURSIVE SymbolRegionPairs(_, _, _)
SymbolRegionPairs(edge_labels, i, pairs) ==
  IF i > Len(edge_labels) THEN pairs
  ELSE LET p == <<edge_labels[i].symbol, edge_labels[i].region_str>>
       IN SymbolRegionPairs(edge_labels, i + 1,
                            IF InSeq(p, pairs) THEN pairs ELSE Append(pairs, p))

NodeSet(drta) == {drta.nodes[i] : i \in 1..Len(drta.nodes)}

generate_onehot_color_clauses(drta, n_colors, m) ==
  \A n \in NodeSet(drta) :
    /\ IF n = 0 THEN 0 \in m.x[n]
       ELSE \E c \in range(n_colors) : c \in m.x[n]
    /\ n \notin drta.registered_nodes =>
         \A i, j \in range(n_colors) : i < j => ~(i \in m.x[n] /\ j \in m.x[n])

generate_accept_reject_clauses(drta, n_colors, m) ==
  /\ \A n \in drta.accepting : \A c \in range(n_colors) : c \in m.x[n] => c \in m.z
  /\ \A n \in drta.rejecting : \A c \in range(n_colors) : c \in m.x[n] => c \notin m.z

\* an encoding without the constraint on colour 0
NoColorZeroConstraint(positive_samples, m) == TRUE

\* test_encoding always hands over a list, never None
generate_color_zero_accepting_constraint(positive_samples, m) ==
  Len(positive_samples) > 0 => 0 \in m.z

\* parse_region local to _regions_may_intersect
ParseRegionStr(region_str) ==
  Region(region_str[2], IF region_str[3] = -2 THEN Inf ELSE region_str[3],
         region_str[1] = "[", region_str[4] = "]")

\* an intersection test that only knows equal strings
SameRegionString(region1_str, region2_str) == region1_str = region2_str

_regions_may_intersect(region1_str, region2_str) ==
  IF region1_str = region2_str THEN TRUE
  ELSE LET region1 == ParseRegionStr(region1_str)
           region2 == ParseRegionStr(region2_str)
       IN IF \/ region1.upper < region2.lower
             \/ (region1.upper = region2.lower
                   /\ (~region1.upper_inclusive \/ ~region2.lower_inclusive))
          THEN FALSE
          ELSE IF \/ region1.lower > region2.upper
                  \/ (region1.lower = region2.upper
                        /\ (~region1.lower_inclusive \/ ~region2.upper_inclusive))
          THEN FALSE
          ELSE TRUE

\* an encoding without the constraints on intersecting regions
NoDeterministicConstraints(drta, n_colors, m) == TRUE

\* every trans_ variable exists when the constraints are added, so each pair of
\* variables of a (color1, symbol) group is constrained
_add_deterministic_constraints(drta, n_colors, m) ==
  LET pairs == SymbolRegionPairs(drta.edge_labels, 1, <<>>)
  IN \A i, j \in 1..Len(pairs) : \A color1, color2_i, color2_j \in range(n_colors) :
       (/\ pairs[i][1] = pairs[j][1]
        /\ color2_i # color2_j
        /\ _regions_may_intersect(pairs[i][2], pairs[j][2]))
       => ~(/\ <<pairs[i][1], pairs[i][2], color1, color2_i>> \in m.y
            /\ <<pairs[j][1], pairs[j][2], color1, color2_j>> \in m.y)

_add_symbol_region_existence_constraints(drta, n_colors, m) ==
  LET pairs == SymbolRegionPairs(drta.edge_labels, 1, <<>>)
  IN \A i \in 1..Len(pairs) :
       \E color1, color2 \in range(n_colors) :
          <<pairs[i][1], pairs[i][2], color1, color2>> \in m.y

generate_transition_clauses(drta, n_colors, m) ==
  /\ \A i \in 1..Len(drta.edge_labels) :
       LET e == drta.edge_labels[i]
       IN \A color1, color2 \in range(n_colors) :
            (color1 \in m.x[e.source] /\ <<e.symbol, e.region_str, color1, color2>> \in m.y)
            => color2 \in m.x[e.target]
  /\ _add_deterministic_constraints(drta, n_colors, m)
  /\ _add_symbol_region_existence_constraints(drta, n_colors, m)

generate_min_colors_used_clauses(drta, n_colors, m) ==
  \A c \in range(n_colors) : c \in m.used <=> \E n \in NodeSet(drta) : c \in m.x[n]

_add_state_symbol_region_coverage_constraints(drta, n_colors, m) ==
  LET pairs == SymbolRegionPairs(drta.edge_labels, 1, <<>>)
  IN \A i \in 1..Len(pairs) : \A source_color \in range(n_colors) :
       source_color \in m.used =>
         \E target_color \in range(n_colors) :
            <<pairs[i][1], pairs[i][2], source_color, target_color>> \in m.y

_add_complete_coverage_constraints(drta, n_colors, m) ==
  /\ \A i \in 1..Len(drta.edge_labels) :
       LET e == drta.edge_labels[i]
       IN \E source_color, target_color \in range(n_colors) :
            /\ source_color \in m.x[e.source]
            /\ <<e.symbol, e.region_str, source_color, target_color>> \in m.y
            /\ target_color \in m.x[e.target]
  /\ _add_state_symbol_region_coverage_constraints(drta, n_colors, m)

\* the constraints generate_clauses hands to the solver
Satisfies(drta, n_colors, positive_samples, m) ==
  /\ generate_onehot_color_clauses(drta, n_colors, m)
  /\ generate_accept_reject_clauses(drta, n_colors, m)
  /\ generate_color_zero_accepting_constraint(positive_samples, m)
  /\ generate_transition_clauses(drta, n_colors, m)
  /\ generate_min_colors_used_clauses(drta, n_colors, m)
  /\ _add_complete_coverage_constraints(drta, n_colors, m)

\* The assignments the solver can return.  They are enumerated from the shape the
\* constraints force and then filtered by the constraints themselves:
\*   - a node outside registered_nodes has exactly one colour (one-hot);
\*   - color_c_used is equivalent to "some node has colour c";
\*   - a (symbol, region, color1) has at most one target colour, because a region
\*     string may intersect itself (determinism).
ColourSets(drta, n_colors) ==
  LET N == NodeSet(drta)
      R == N \cap drta.registered_nodes
  IN {[n \in N |-> IF n \in R THEN {base[n]} \cup extra[n] ELSE {base[n]}] :
        base \in [N -> range(n_colors)], extra \in [R -> SUBSET range(n_colors)]}

UsedBy(drta, x) == UNION {x[n] : n \in NodeSet(drta)}

YRow(pairs, color1, f) ==
  {<<pairs[i][1], pairs[i][2], color1, f[i]>> : i \in {j \in 1..Len(pairs) : f[j] # None}}

YRows(drta, n_colors, x, color1) ==
  LET pairs == SymbolRegionPairs(drta.edge_labels, 1, <<>>)
      m(f) == [x |-> x, z |-> {}, y |-> YRow(pairs, color1, f), used |-> UsedBy(drta, x)]
  IN {YRow(pairs, color1, f) :
        f \in {g \in [1..Len(pairs) -> range(n_colors) \cup {None}] :
                 /\ _add_deterministic_constraints(drta, n_colors, m(g))
                 /\ color1 \in UsedBy(drta, x) => \A i \in 1..Len(pairs) : g[i] # None}}

RECURSIVE YChoices(_, _, _, _)
YChoices(drta, n_colors, x, color1) ==
  IF color1 >= n_colors THEN {{}}
  ELSE {row \cup rest : row \in YRows(drta, n_colors, x, color1),
                        rest \in YChoices(drta, n_colors, x, color1 + 1)}

Models(drta, n_colors, positive_samples) ==
  LET xz == {p \in ColourSets(drta, n_colors) \X SUBSET range(n_colors) :
               LET m == [x |-> p[1], z |-> p[2], y |-> {}, used |-> {}]
               IN /\ generate_onehot_color_clauses(drta, n_colors, m)
                  /\ generate_accept_reject_clauses(drta, n_colors, m)
                  /\ generate_color_zero_accepting_constraint(positive_samples, m)}
  IN UNION {{m \in {[x |-> p[1], z |-> p[2], y |-> y, used |-> UsedBy(drta, p[1])] :
                      y \in YChoices(drta, n_colors, p[1], 0)} :
               Satisfies(drta, n_colors, positive_samples, m)} : p \in xz}

\* solver.check() == sat
generate_clauses(drta, n_colors, positive_samples) ==
  Models(drta, n_colors, positive_samples) # {}

\* ------------------------------------------------------------------ test_encoding.py
\* Regions are the tuples (lower, upper, lower_closed, upper_closed), kept here in
\* Region records; a dict is a sequence of [key, val] in insertion order.
DictHas(d, k) == \E i \in 1..Len(d) : d[i].key = k
DictGet(d, k) == d[CHOOSE i \in 1..Len(d) : d[i].key = k].val
DictPut(d, k, v) ==
  IF DictHas(d, k)
  THEN [i \in 1..Len(d) |-> IF d[i].key = k THEN [key |-> k, val |-> v] ELSE d[i]]
  ELSE Append(d, [key |-> k, val |-> v])

\* parse_region: the inverse of Region.__str__
parse_region(region_str) ==
  Region(region_str[2], IF region_str[3] = -2 THEN Inf ELSE region_str[3],
         region_str[1] = "[", region_str[4] = "]")

\* a test that takes every bound as closed
InClosure(timestamp, region) ==
  /\ timestamp >= region.lower * Den
  /\ (region.upper = Inf \/ timestamp <= region.upper * Den)

is_timestamp_in_region(timestamp, region) ==
  /\ IF region.lower_inclusive THEN ~(timestamp < region.lower * Den)
                               ELSE ~(timestamp <= region.lower * Den)
  /\ \/ region.upper = Inf
     \/ IF region.upper_inclusive THEN ~(timestamp > region.upper * Den)
                                  ELSE ~(timestamp >= region.upper * Den)

\* lower < p < upper, or p on a closed bound
PointIn(lower, upper, lower_closed, upper_closed, point_value) ==
  \/ (lower < point_value /\ point_value < upper)
  \/ (lower = point_value /\ lower_closed)
  \/ (upper = point_value /\ upper_closed)

ExactPoint(r) == r.lower = r.upper /\ r.lower_inclusive /\ r.upper_inclusive

\* key=lambda r: (r[0], 0 if r[2] else 1)
RegionKeyLess(r1, r2) ==
  \/ r1.lower < r2.lower
  \/ (r1.lower = r2.lower /\ r1.lower_inclusive /\ ~r2.lower_inclusive)

RECURSIVE InsertRegion(_, _)
InsertRegion(regions, r) ==
  IF regions = <<>> THEN <<r>>
  ELSE IF RegionKeyLess(r, regions[Len(regions)])
       THEN Append(InsertRegion(SubSeq(regions, 1, Len(regions) - 1), r),
                   regions[Len(regions)])
       ELSE Append(regions, r)

RECURSIVE sorted(_)
sorted(regions) ==
  IF regions = <<>> THEN <<>>
  ELSE InsertRegion(sorted(SubSeq(regions, 1, Len(regions) - 1)), regions[Len(regions)])

get_region_overlap(r1, r2) ==
  LET lower == Max(r1.lower, r2.lower)
      upper == Min(r1.upper, r2.upper)
      lower_closed == (IF lower = r1.lower THEN r1.lower_inclusive ELSE FALSE)
                      /\ (IF lower = r2.lower THEN r2.lower_inclusive ELSE FALSE)
      upper_closed == (IF upper = r1.upper THEN r1.upper_inclusive ELSE FALSE)
                      /\ (IF upper = r2.upper THEN r2.upper_inclusive ELSE FALSE)
  IN IF lower < upper \/ (lower = upper /\ lower_closed /\ upper_closed)
     THEN Region(lower, upper, lower_closed, upper_closed)
     ELSE NoRegion

RECURSIVE GapsBetween(_, _)
GapsBetween(regions, i) ==
  IF i >= Len(regions) THEN <<>>
  ELSE LET current_upper == regions[i].upper
           next_lower == regions[i + 1].lower
           current_upper_closed == regions[i].upper_inclusive
           next_lower_closed == regions[i + 1].lower_inclusive
           here ==
             IF current_upper < next_lower
             THEN <<Region(current_upper, next_lower,
                           ~current_upper_closed, ~next_lower_closed)>>
             ELSE IF current_upper = next_lower
                     /\ ~(current_upper_closed /\ next_lower_closed)
                     /\ ~current_upper_closed /\ ~next_lower_closed
                  THEN <<Region(current_upper, current_upper, TRUE, TRUE)>>
                  ELSE <<>>
       IN here \o GapsBetween(regions, i + 1)

find_gaps(regions) ==
  IF regions = <<>> THEN <<Region(0, Inf, TRUE, FALSE)>>
  ELSE (IF regions[1].lower > 0
        THEN <<Region(0, regions[1].lower, TRUE, ~regions[1].lower_inclusive)>>
        ELSE <<>>)
       \o GapsBetween(regions, 1)
       \o (IF regions[Len(regions)].upper # Inf
           THEN <<Region(regions[Len(regions)].upper, Inf,
                         ~regions[Len(regions)].upper_inclusive, FALSE)>>
           ELSE <<>>)

\* the loop over conflict_points: <<internal points, lower_closed, upper_closed>>
RECURSIVE SplitScan(_, _, _, _, _, _)
SplitScan(region, conflict_points, i, internal_points, lower_closed, upper_closed) ==
  IF i > Len(conflict_points) THEN <<internal_points, lower_closed, upper_closed>>
  ELSE LET point == conflict_points[i]
       IN IF region.lower < point /\ point < region.upper
          THEN SplitScan(region, conflict_points, i + 1,
                         internal_points \cup {point}, lower_closed, upper_closed)
          ELSE IF point = region.lower /\ lower_closed
          THEN SplitScan(region, conflict_points, i + 1, internal_points, FALSE, upper_closed)
          ELSE IF point = region.upper /\ upper_closed
          THEN SplitScan(region, conflict_points, i + 1, internal_points, lower_closed, FALSE)
          ELSE SplitScan(region, conflict_points, i + 1,
                         internal_points, lower_closed, upper_closed)

\* the loop over the sorted internal points
RECURSIVE SplitAt(_, _, _, _)
SplitAt(internal_points, current_lower, current_lower_closed, result) ==
  IF internal_points = {} THEN <<result, current_lower, current_lower_closed>>
  ELSE LET point == CHOOSE q \in internal_points : \A o \in internal_points : q <= o
       IN SplitAt(internal_points \ {point}, point, FALSE,
                  IF current_lower < point \/ (current_lower = point /\ current_lower_closed)
                  THEN Append(result, Region(current_lower, point, current_lower_closed, FALSE))
                  ELSE result)

NonEmptyRegion(r) == r.lower < r.upper \/ ExactPoint(r)

split_region_around_points(region, conflict_points) ==
  IF conflict_points = <<>> THEN <<region>>
  ELSE LET scan == SplitScan(region, conflict_points, 1, {},
                             region.lower_inclusive, region.upper_inclusive)
           lower_closed == scan[2]
           upper_closed == scan[3]
           adjusted == Region(region.lower, region.upper, lower_closed, upper_closed)
       IN IF scan[1] = {}
          THEN IF NonEmptyRegion(adjusted) THEN <<adjusted>> ELSE <<>>
          ELSE LET cut == SplitAt(scan[1], region.lower, lower_closed, <<>>)
                   last == Region(cut[2], region.upper, cut[3], upper_closed)
               IN SelectSeq(IF cut[2] < region.upper
                               \/ (cut[2] = region.upper /\ cut[3] /\ upper_closed)
                            THEN Append(cut[1], last) ELSE cut[1],
                            NonEmptyRegion)

\* the protection test of merge_adjacent_regions_protected for the pair r1, r2
MergeBlocked(r1, r2, protected_points, target_color) ==
  \E k \in 1..Len(protected_points) :
     LET point_value == protected_points[k].key
         merged_lower == Min(r1.lower, r2.lower)
         merged_upper == Max(r1.upper, r2.upper)
         merged_lower_closed == IF merged_lower = r1.lower THEN r1.lower_inclusive
                                                           ELSE r2.lower_inclusive
         merged_upper_closed == IF merged_upper = r1.upper THEN r1.upper_inclusive
                                                           ELSE r2.upper_inclusive
     IN /\ protected_points[k].val # target_color
        /\ PointIn(merged_lower, merged_upper, merged_lower_closed, merged_upper_closed,
                   point_value)
        /\ ~PointIn(r1.lower, r1.upper, r1.lower_inclusive, r1.upper_inclusive, point_value)
        /\ ~PointIn(r2.lower, r2.upper, r2.lower_inclusive, r2.upper_inclusive, point_value)

\* abs(lower2 - upper1) < 1e-10 on whole-number bounds
Touching(lower2, upper1) == lower2 = upper1

MergedPair(r1, r2) ==
  LET new_lower == Min(r1.lower, r2.lower)
      new_upper == Max(r1.upper, r2.upper)
  IN Region(new_lower, new_upper,
            IF r1.lower = r2.lower THEN r1.lower_inclusive \/ r2.lower_inclusive
            ELSE IF new_lower = r1.lower THEN r1.lower_inclusive ELSE r2.lower_inclusive,
            IF r1.upper = r2.upper THEN r1.upper_inclusive \/ r2.upper_inclusive
            ELSE IF new_upper = r1.upper THEN r1.upper_inclusive ELSE r2.upper_inclusive)

RECURSIVE MergeFrom(_, _, _, _)
MergeFrom(regions, i, protected_points, target_color) ==
  IF i >= Len(regions) THEN regions
  ELSE LET r1 == regions[i]
           r2 == regions[i + 1]
           can_merge ==
             /\ ~MergeBlocked(r1, r2, protected_points, target_color)
             /\ \/ r2.lower < r1.upper
                \/ (r2.lower = r1.upper /\ (r1.upper_inclusive \/ r2.lower_inclusive))
                \/ Touching(r2.lower, r1.upper)
       IN IF can_merge
          THEN MergeFrom(SubSeq(regions, 1, i - 1) \o <<MergedPair(r1, r2)>>
                           \o SubSeq(regions, i + 2, Len(regions)),
                         i, protected_points, target_color)
          ELSE MergeFrom(regions, i + 1, protected_points, target_color)

merge_adjacent_regions_protected(regions, protected_points, target_color) ==
  MergeFrom(regions, 1, protected_points, target_color)

\* point_intervals: point -> the target colours that hold [point, point]
RECURSIVE PointIntervals(_, _, _, _)
PointIntervals(by_target, c, i, point_intervals) ==
  IF c > Len(by_target) THEN point_intervals
  ELSE IF i > Len(by_target[c].val) THEN PointIntervals(by_target, c + 1, 1, point_intervals)
  ELSE LET region == by_target[c].val[i]
       IN PointIntervals(by_target, c, i + 1,
            IF ExactPoint(region)
            THEN DictPut(point_intervals, region.lower,
                         (IF DictHas(point_intervals, region.lower)
                          THEN DictGet(point_intervals, region.lower) ELSE <<>>)
                         \o <<by_target[c].key>>)
            ELSE point_intervals)

SeqMin(s) == CHOOSE v \in {s[i] : i \in 1..Len(s)} : \A i \in 1..Len(s) : v <= s[i]

\* the points of protected_points that a region holds and another colour owns
ConflictsOf(region, protected_points, color_to) ==
  LET hit == SelectSeq(protected_points,
               LAMBDA e : e.val # color_to
                          /\ PointIn(region.lower, region.upper, region.lower_inclusive,
                                     region.upper_inclusive, e.key))
  IN [k \in 1..Len(hit) |-> hit[k].key]

\* a pass that loses the exact points and splits nothing
RECURSIVE ProcessRegionsDropPoints(_, _, _, _)
ProcessRegionsDropPoints(regions, i, protected_points, color_to) ==
  IF i > Len(regions) THEN <<>>
  ELSE (IF ExactPoint(regions[i]) THEN <<>> ELSE <<regions[i]>>)
       \o ProcessRegionsDropPoints(regions, i + 1, protected_points, color_to)

RECURSIVE ProcessRegions(_, _, _, _)
ProcessRegions(regions, i, protected_points, color_to) ==
  IF i > Len(regions) THEN <<>>
  ELSE LET region == regions[i]
           conflicts == ConflictsOf(region, protected_points, color_to)
           here == IF ExactPoint(region)
                   THEN IF DictHas(protected_points, region.lower)
                           /\ DictGet(protected_points, region.lower) = color_to
                        THEN <<region>> ELSE <<>>
                   ELSE IF conflicts = <<>> THEN <<region>>
                        ELSE split_region_around_points(region, conflicts)
       IN here \o ProcessRegions(regions, i + 1, protected_points, color_to)

optimize_regions_with_solver(by_target) ==
  LET point_intervals == PointIntervals(by_target, 1, 1, <<>>)
      protected_points ==
        [k \in 1..Len(point_intervals) |->
           [key |-> point_intervals[k].key,
            val |-> IF Len(point_intervals[k].val) > 1 THEN SeqMin(point_intervals[k].val)
                    ELSE point_intervals[k].val[1]]]
      processed(c) == ProcessRegions(by_target[c].val, 1, protected_points, by_target[c].key)
  IN [c \in 1..Len(by_target) |->
        [key |-> by_target[c].key,
         val |-> IF Len(processed(c)) > 1
                 THEN merge_adjacent_regions_protected(sorted(processed(c)),
                                                       protected_points, by_target[c].key)
                 ELSE processed(c)]]

\* sorted(optimized_regions.keys(), key=lambda c: len(optimized_regions[c]))
RECURSIVE ByRegionCount(_, _)
ByRegionCount(optimized_regions, i) ==
  IF i = 0 THEN <<>>
  ELSE LET before == ByRegionCount(optimized_regions, i - 1)
           count(color) == Len(DictGet(optimized_regions, color))
           n == Len(optimized_regions[i].val)
           keep == Cardinality({j \in 1..Len(before) : count(before[j]) <= n})
       IN SubSeq(before, 1, keep) \o <<optimized_regions[i].key>>
            \o SubSeq(before, keep + 1, Len(before))

\* the match score of one region against a gap
MatchScore(region, gap) ==
  (IF region.upper = gap.lower /\ (region.upper_inclusive \/ gap.lower_inclusive)
   THEN 2 ELSE 0)
  + (IF region.lower = gap.upper /\ (region.lower_inclusive \/ gap.upper_inclusive)
     THEN 1 ELSE 0)

\* color_matches: colour -> highest score, in the order the colours first match
ColorMatches(optimized_regions, gap) ==
  LET best(c) == CHOOSE v \in {MatchScore(optimized_regions[c].val[i], gap) :
                                 i \in 1..Len(optimized_regions[c].val)} \cup {0} :
                    \A i \in 1..Len(optimized_regions[c].val) :
                       v >= MatchScore(optimized_regions[c].val[i], gap)
      all == [c \in 1..Len(optimized_regions) |->
                [key |-> optimized_regions[c].key, val |-> best(c)]]
  IN SelectSeq(all, LAMBDA e : e.val > 0)

RECURSIVE BestColor(_, _, _, _, _)
BestColor(optimized_regions, color_matches, i, best_color, best_score) ==
  IF i > Len(color_matches) THEN best_color
  ELSE LET color == color_matches[i].key
           score == color_matches[i].val
       IN IF score > best_score
          THEN BestColor(optimized_regions, color_matches, i + 1, color, score)
          ELSE IF score = best_score
                  /\ Len(DictGet(optimized_regions, color))
                       < Len(DictGet(optimized_regions, best_color))
          THEN BestColor(optimized_regions, color_matches, i + 1, color, best_score)
          ELSE BestColor(optimized_regions, color_matches, i + 1, best_color, best_score)

Distance(region, gap) ==
  IF gap.upper <= region.lower THEN region.lower - gap.upper
  ELSE IF gap.lower >= region.upper THEN gap.lower - region.upper
  ELSE 0

\* the fallback: the first region at the least distance, Inf standing for "none yet"
RECURSIVE ClosestColor(_, _, _, _, _, _)
ClosestColor(optimized_regions, gap, c, i, best_color, min_distance) ==
  IF c > Len(optimized_regions) THEN best_color
  ELSE IF i > Len(optimized_regions[c].val)
       THEN ClosestColor(optimized_regions, gap, c + 1, 1, best_color, min_distance)
  ELSE LET distance == Distance(optimized_regions[c].val[i], gap)
       IN IF distance < min_distance
          THEN ClosestColor(optimized_regions, gap, c, i + 1,
                            optimized_regions[c].key, distance)
          ELSE ClosestColor(optimized_regions, gap, c, i + 1, best_color, min_distance)

GapConflicts(gap, protected_points) ==
  LET hit == SelectSeq(protected_points,
               LAMBDA e : PointIn(gap.lower, gap.upper, gap.lower_inclusive,
                                  gap.upper_inclusive, e.key))
  IN [k \in 1..Len(hit) |-> hit[k].key]

RECURSIVE FillFrom(_, _, _, _, _)
FillFrom(optimized_regions, gaps, i, protected_points, target_colors) ==
  IF i > Len(gaps) THEN optimized_regions
  ELSE
    LET g == gaps[i]
        conflicts == GapConflicts(g, protected_points)
        gap == IF g.lower = 0 /\ ~g.lower_inclusive
               THEN Region(g.lower, g.upper, TRUE, g.upper_inclusive) ELSE g
        matched == BestColor(optimized_regions, ColorMatches(optimized_regions, gap),
                             1, None, -1)
        closest == IF matched # None THEN matched
                   ELSE ClosestColor(optimized_regions, gap, 1, 1, None, Inf)
        best_color == IF closest # None THEN closest ELSE target_colors[1]
        filled == DictPut(optimized_regions, best_color,
                    merge_adjacent_regions_protected(
                      sorted(Append(DictGet(optimized_regions, best_color), gap)),
                      protected_points, best_color))
    IN IF g.lower = g.upper /\ ~(g.lower_inclusive /\ g.upper_inclusive)
       THEN FillFrom(optimized_regions, gaps, i + 1, protected_points, target_colors)
       ELSE IF conflicts # <<>>
       THEN LET sub_gaps == split_region_around_points(g, conflicts)
                inner == IF sub_gaps = <<>> \/ optimized_regions = <<>>
                         THEN optimized_regions
                         ELSE FillFrom(optimized_regions, sub_gaps, 1, protected_points,
                                       ByRegionCount(optimized_regions,
                                                     Len(optimized_regions)))
            IN FillFrom(inner, gaps, i + 1, protected_points, target_colors)
       ELSE FillFrom(filled, gaps, i + 1, protected_points, target_colors)

fill_gaps_in_regions_protected(optimized_regions, gaps, protected_points) ==
  IF gaps = <<>> \/ optimized_regions = <<>> THEN optimized_regions
  ELSE FillFrom(optimized_regions, gaps, 1, protected_points,
                ByRegionCount(optimized_regions, Len(optimized_regions)))

\* a dict built by d[e.key] = e.val over the elements of a sequence
RECURSIVE DictOf(_, _)
DictOf(elems, i) ==
  IF i = 0 THEN <<>>
  ELSE DictPut(DictOf(elems, i - 1), elems[i].key, elems[i].val)

RECURSIVE Concat(_)
Concat(lists) == IF lists = <<>> THEN <<>> ELSE lists[1] \o Concat(Tail(lists))

AllRegions(optimized_regions) ==
  Concat([c \in 1..Len(optimized_regions) |-> optimized_regions[c].val])

ValidGaps(gaps) ==
  SelectSeq(gaps, LAMBDA gap : ~(gap.lower = gap.upper
                                 /\ (~gap.lower_inclusive \/ ~gap.upper_inclusive)))

\* the regions optimize_transitions_new stores for one (color_from, symbol) group
OptimizeGroup(trans_group) ==
  LET targets == DictOf([i \in 1..Len(trans_group) |->
                           [key |-> trans_group[i].color_to, val |-> <<>>]],
                        Len(trans_group))
      by_target == [c \in 1..Len(targets) |->
                      [key |-> targets[c].key,
                       val |-> LET of == SelectSeq(trans_group,
                                           LAMBDA t : t.color_to = targets[c].key)
                               IN [i \in 1..Len(of) |-> of[i].region]]]
      points == SelectSeq(trans_group, LAMBDA t : ExactPoint(t.region))
      protected_points == DictOf([i \in 1..Len(points) |->
                                    [key |-> points[i].region.lower,
                                     val |-> points[i].color_to]],
                                 Len(points))
      color_to == by_target[1].key
      zero_closed == ~DictHas(protected_points, 0) \/ DictGet(protected_points, 0) = color_to
      optimized_regions ==
        IF Len(by_target) = 1
        THEN <<[key |-> color_to, val |-> <<Region(0, Inf, zero_closed, FALSE)>>]>>
        ELSE optimize_regions_with_solver(
               [c \in 1..Len(by_target) |->
                  [key |-> by_target[c].key, val |-> sorted(by_target[c].val)]])
      valid_gaps == ValidGaps(find_gaps(sorted(AllRegions(optimized_regions))))
  IN IF valid_gaps # <<>>
     THEN fill_gaps_in_regions_protected(optimized_regions, valid_gaps, protected_points)
     ELSE optimized_regions

optimize_transitions_new(transitions) ==
  LET parsed_transitions ==
        [i \in 1..Len(transitions) |->
           [symbol |-> transitions[i][1], region |-> parse_region(transitions[i][2]),
            color_from |-> transitions[i][3], color_to |-> transitions[i][4]]]
      transitions_by_source ==
        DictOf([i \in 1..Len(parsed_transitions) |->
                  [key |-> <<parsed_transitions[i].color_from, parsed_transitions[i].symbol>>,
                   val |-> <<>>]],
               Len(parsed_transitions))
  IN [g \in 1..Len(transitions_by_source) |->
        [key |-> transitions_by_source[g].key,
         val |-> OptimizeGroup(
                   SelectSeq(parsed_transitions,
                     LAMBDA t : <<t.color_from, t.symbol>> = transitions_by_source[g].key))]]

\* possible_transitions of simulate_drta_execution, one entry per matching region
PossibleTransitions(optimized_transitions, current_state, symbol_id, timestamp) ==
  LET groups == SelectSeq(optimized_transitions,
                          LAMBDA e : e.key = <<current_state, symbol_id>>)
      targets(g) == Concat([c \in 1..Len(g.val) |->
                      LET hit == SelectSeq(g.val[c].val,
                                   LAMBDA region : is_timestamp_in_region(timestamp, region))
                      IN [i \in 1..Len(hit) |-> g.val[c].key]])
  IN Concat([g \in 1..Len(groups) |-> targets(groups[g])])

RECURSIVE Execute(_, _, _, _, _)
Execute(sample, i, current_state, optimized_transitions, alphabet) ==
  IF i > Len(sample) THEN current_state
  ELSE IF sample[i][1] \notin DOMAIN alphabet THEN None
  ELSE LET possible_transitions ==
             PossibleTransitions(optimized_transitions, current_state,
                                 alphabet[sample[i][1]], sample[i][2])
       IN IF Len(possible_transitions) # 1 THEN None
          ELSE Execute(sample, i + 1, possible_transitions[1], optimized_transitions, alphabet)

\* the 'accepted' entry of the result of simulate_drta_execution
simulate_drta_execution(sample, optimized_transitions, accepting_colors, alphabet) ==
  LET final == Execute(sample, 1, 0, optimized_transitions, alphabet)
  IN final # None /\ final \in accepting_colors

\* verify_drta_correctness: every sample gets its label
verify_drta_correctness(optimized_transitions, accepting_colors, positive_samples, negative_samples, alphabet) ==
  /\ \A i \in 1..Len(positive_samples) :
       simulate_drta_execution(positive_samples[i], optimized_transitions,
                               accepting_colors, alphabet)
  /\ \A i \in 1..Len(negative_samples) :
       ~simulate_drta_execution(negative_samples[i], optimized_transitions,
                                accepting_colors, alphabet)

\* the true trans_ variables in the order encoding.variables holds them: by label
\* in the order of edge_labels, then color1, then color2
TrueTransitions(drta, n_colors, m) ==
  LET pairs == SymbolRegionPairs(drta.edge_labels, 1, <<>>)
      var(k) == <<pairs[((k - 1) \div (n_colors * n_colors)) + 1][1],
                  pairs[((k - 1) \div (n_colors * n_colors)) + 1][2],
                  ((k - 1) \div n_colors) % n_colors,
                  (k - 1) % n_colors>>
  IN SelectSeq([k \in 1..(Len(pairs) * n_colors * n_colors) |-> var(k)],
               LAMBDA v : v \in m.y)

\* ------------------------------------------------------------------ DRTA
\* DRTA.__init__: graph is the MultiDiGraph, its nodes in insertion order with their
\* attribute lists and its edges with their data
DRTA == [graph |-> [nodes |-> <<>>, edges |-> <<>>],
         root |-> None,
         accepting_states |-> {},
         rejecting_states |-> {},
         alphabet |-> <<>>,
         next_symbol_id |-> 0,
         next_state_id |-> 0]

\* state_id in self.graph
InGraph(d, state_id) == \E i \in 1..Len(d.graph.nodes) : d.graph.nodes[i].id = state_id

GraphIds(d) == {d.graph.nodes[i].id : i \in 1..Len(d.graph.nodes)}

add_state(d, is_accepting, is_rejecting, is_initial) ==
  LET state_id == d.next_state_id
  IN [d EXCEPT
        !.next_state_id = @ + 1,
        !.graph.nodes = Append(@, [id |-> state_id, sources |-> <<>>, regions |-> <<>>,
                                   from_states |-> <<>>]),
        !.accepting_states = IF is_accepting THEN @ \cup {state_id} ELSE @,
        !.rejecting_states = IF is_rejecting THEN @ \cup {state_id} ELSE @,
        !.root = IF is_initial \/ d.root = None THEN state_id ELSE @]

get_symbol_id(d, symbol) ==
  IF DictHas(d.alphabet, symbol) THEN d
  ELSE [d EXCEPT !.alphabet = DictPut(@, symbol, d.next_symbol_id),
                 !.next_symbol_id = @ + 1]

\* a call with a source or a target that is not in the graph raises ValueError
DRTA_add_transition(d, source_id, target_id, symbol, time_region) ==
  LET d1 == get_symbol_id(d, symbol)
      symbol_id == DictGet(d1.alphabet, symbol)
      exists == \E i \in 1..Len(d.graph.edges) :
                   /\ d.graph.edges[i].source = source_id
                   /\ d.graph.edges[i].target = target_id
                   /\ d.graph.edges[i].symbol_id = symbol_id
                   /\ d.graph.edges[i].region = str(time_region)
  IN IF exists THEN d1
     ELSE [d1 EXCEPT
             !.graph.edges = Append(@, [source |-> source_id, target |-> target_id,
                                        symbol |-> symbol, symbol_id |-> symbol_id,
                                        region |-> str(time_region)]),
             !.graph.nodes = [i \in 1..Len(d.graph.nodes) |->
                                LET n == d.graph.nodes[i]
                                IN IF n.id = target_id
                                   THEN [id |-> n.id,
                                         sources |-> Append(n.sources, symbol),
                                         regions |-> Append(n.regions, str(time_region)),
                                         from_states |-> Append(n.from_states, source_id)]
                                   ELSE n]]

remove_state(d, state_id) ==
  IF ~InGraph(d, state_id) THEN d
  ELSE LET nodes == SelectSeq(d.graph.nodes, LAMBDA n : n.id # state_id)
           edges == SelectSeq(d.graph.edges,
                              LAMBDA e : e.source # state_id /\ e.target # state_id)
       IN [d EXCEPT
             !.graph = [nodes |-> nodes, edges |-> edges],
             !.accepting_states = @ \ {state_id},
             !.rejecting_states = @ \ {state_id},
             !.root = IF state_id = d.root
                      THEN (IF Len(nodes) > 0 THEN nodes[1].id ELSE None)
                      ELSE @]

\* a call with a state that is not in the graph raises ValueError
set_state_accepting(d, state_id, is_accepting) ==
  IF is_accepting
  THEN [d EXCEPT !.accepting_states = @ \cup {state_id},
                 !.rejecting_states = @ \ {state_id}]
  ELSE [d EXCEPT !.accepting_states = @ \ {state_id}]

set_state_rejecting(d, state_id, is_rejecting) ==
  IF is_rejecting
  THEN [d EXCEPT !.rejecting_states = @ \cup {state_id},
                 !.accepting_states = @ \ {state_id}]
  ELSE [d EXCEPT !.rejecting_states = @ \ {state_id}]

set_initial_state(d, state_id) == [d EXCEPT !.root = state_id]

\* ------------------------------------------------------------------ state
\* pc            where the run is: "adding" samples in build_from_samples, "built",
\*               "encoding" inside the loop of test_encoding, "done" after it
\* max_time      the largest timestamp of the sample set
\* all_samples   the sorted samples added so far, each with its label
\* rta           the Min3RTA
\* drta          the TDRTA of convert_to_3DRTA
\* sizes, successful_sizes, model, optimized_transitions   locals of test_encoding
\* region1, region2, merged_region   the arguments and the result of a call of
\*               _merge_regions
VARIABLES pc, max_time, all_samples, rta, drta, sizes, successful_sizes, model,
          optimized_transitions, region1, region2, merged_region,
          suffix_time, suffix_region, S_positive, S_negative, Regions, T, omega_i,
          result, regions, gaps, automaton

vars == <<pc, max_time, all_samples, rta, drta, sizes, successful_sizes, model,
          optimized_transitions, region1, region2, merged_region,
          suffix_time, suffix_region, S_positive, S_negative, Regions, T, omega_i,
          result, regions, gaps, automaton>>

builder == <<max_time, all_samples, rta>>
learner == <<drta, sizes, successful_sizes, model, optimized_transitions>>
merging == <<region1, region2, merged_region>>
suffixing == <<suffix_time, suffix_region>>
apta == <<S_positive, S_negative, Regions, T, omega_i>>
lists == <<regions, gaps>>

NoModel == [x |-> <<>>, z |-> {}, y |-> {}, used |-> {}]

PositiveOf(all) == LET s == SelectSeq(all, LAMBDA x : x.type = ACCEPT)
                   IN [i \in 1..Len(s) |-> s[i].sample]
NegativeOf(all) == LET s == SelectSeq(all, LAMBDA x : x.type = REJECT)
                   IN [i \in 1..Len(s) |-> s[i].sample]

positive_samples == PositiveOf(all_samples)
negative_samples == NegativeOf(all_samples)

\* the samples arrive in the order all_samples.sort leaves them in
InSortedOrder(all, x) ==
  IF all = <<>> THEN TRUE
  ELSE LET last == all[Len(all)]
       IN IF last.sample = x.sample THEN last.type = ACCEPT \/ x.type = REJECT
          ELSE KeyLess(last, x)

\* a search that starts with three colours
InitFromThree ==
  /\ regions = <<>>
  /\ gaps = <<>>
  /\ automaton = DRTA
  /\ pc = "adding"
  /\ max_time \in Times
  /\ all_samples = <<>>
  /\ rta = create_node(Min3RTA0)
  /\ drta = NoDRTA
  /\ sizes = 3
  /\ successful_sizes = None
  /\ model = NoModel
  /\ optimized_transitions = <<>>
  /\ S_positive = <<>>
  /\ S_negative = <<>>
  /\ Regions = <<>>
  /\ T = TAPTA
  /\ omega_i = 0
  /\ result = "none"
  /\ suffix_time = 0
  /\ suffix_region = NoRegion
  /\ region1 = NoRegion
  /\ region2 = NoRegion
  /\ merged_region = NoRegion

Init ==
  /\ regions = <<>>
  /\ gaps = <<>>
  /\ automaton = DRTA
  /\ pc = "adding"
  /\ max_time \in Times
  /\ all_samples = <<>>
  /\ rta = create_node(Min3RTA0)
  /\ drta = NoDRTA
  /\ sizes = 2
  /\ successful_sizes = None
  /\ model = NoModel
  /\ optimized_transitions = <<>>
  /\ S_positive = <<>>
  /\ S_negative = <<>>
  /\ Regions = <<>>
  /\ T = TAPTA
  /\ omega_i = 0
  /\ result = "none"
  /\ suffix_time = 0
  /\ suffix_region = NoRegion
  /\ region1 = NoRegion
  /\ region2 = NoRegion
  /\ merged_region = NoRegion

\* one round of the loop of build_from_samples
Add(sample, type, limit) ==
  /\ pc = "adding"
  /\ Len(all_samples) < limit
  /\ \A j \in 1..Len(sample) : sample[j][2] <= max_time
  /\ InSortedOrder(all_samples, [sample |-> sample, type |-> type])
  /\ rta' = add(rta, sample, type, max_time)
  /\ all_samples' = Append(all_samples, [sample |-> sample, type |-> type])
  /\ UNCHANGED <<pc, max_time, learner, merging, suffixing, apta, result, lists, automaton>>

\* the final replace_or_register of build_from_samples
Finish ==
  /\ pc = "adding"
  /\ MaxTimeOf(positive_samples, negative_samples) = max_time
  /\ rta' = replace_or_register(rta, root, {}, 0)
  /\ pc' = "built"
  /\ UNCHANGED <<max_time, all_samples, learner, merging, suffixing, apta, result, lists, automaton>>

Next ==
  \/ \E sample \in Traces, type \in BOOLEAN : Add(sample, type, MaxSamples)
  \/ Finish

Spec == Init /\ [][Next]_vars

\* the second half of build_min_3rta
Convert ==
  /\ pc = "built"
  /\ drta' = convert_to_3DRTA(rta, positive_samples, negative_samples)
  /\ pc' = "encoding"
  /\ UNCHANGED <<builder, sizes, successful_sizes, model, optimized_transitions, merging, suffixing, apta, result, lists, automaton>>

\* build_min_3rta: the build followed by the conversion
NextConvert ==
  \/ \E sample \in Traces, type \in BOOLEAN : Add(sample, type, MaxSamples)
  \/ Finish
  \/ Convert

SpecConvert == Init /\ [][NextConvert]_vars

\* ------------------------------------------------------------------ the learner
\* a round of the loop of test_encoding in which the solver answers sat
SolveSat ==
  /\ pc = "encoding"
  /\ sizes <= max_sizes
  /\ sizes <= MaxSizes
  /\ \E m \in Models(drta, sizes, positive_samples) :
       /\ model' = m
       /\ optimized_transitions' = optimize_transitions_new(TrueTransitions(drta, sizes, m))
  /\ successful_sizes' = sizes
  /\ pc' = "done"
  /\ result' = "sat"
  /\ UNCHANGED <<builder, drta, sizes, merging, suffixing, apta, lists, automaton>>

\* a round in which it does not
SolveUnsat ==
  /\ pc = "encoding"
  /\ sizes <= max_sizes
  /\ sizes <= MaxSizes
  /\ ~generate_clauses(drta, sizes, positive_samples)
  /\ sizes' = sizes + 1
  /\ result' = "unsat"
  /\ UNCHANGED <<pc, builder, drta, successful_sizes, model, optimized_transitions,
                 merging, suffixing, apta, lists, automaton>>

\* the number of events of the samples added so far
Events_of(all) == SumSeq([i \in 1..Len(all) |-> Len(all[i].sample)])

NextLearn ==
  \/ \E sample \in Traces, type \in BOOLEAN :
        /\ Events_of(all_samples) + Len(sample) <= LearnEvents
        /\ Add(sample, type, LearnSamples)
  \/ Finish
  \/ Convert
  \/ SolveSat
  \/ SolveUnsat

SpecLearn == Init /\ [][NextLearn]_vars

\* ------------------------------------------------------------------ the search loop alone
\* the loop of test_encoding with the answer of the solver as the input of a round
InitSearch ==
  /\ regions = <<>>
  /\ gaps = <<>>
  /\ automaton = DRTA
  /\ pc = "search"
  /\ sizes = 2
  /\ successful_sizes = None
  /\ result = "none"
  /\ max_time = 0
  /\ all_samples = <<>>
  /\ rta = create_node(Min3RTA0)
  /\ drta = NoDRTA
  /\ model = NoModel
  /\ optimized_transitions = <<>>
  /\ region1 = NoRegion
  /\ region2 = NoRegion
  /\ merged_region = NoRegion
  /\ suffix_time = 0
  /\ suffix_region = NoRegion
  /\ S_positive = <<>>
  /\ S_negative = <<>>
  /\ Regions = <<>>
  /\ T = TAPTA
  /\ omega_i = 0

\* a round that steps over a count after unsat
RoundSkipsOne(answer) ==
  /\ pc = "search"
  /\ sizes <= max_sizes
  /\ result' = answer
  /\ IF answer = "sat"
     THEN successful_sizes' = sizes /\ pc' = "returned" /\ sizes' = sizes
     ELSE sizes' = sizes + 2 /\ UNCHANGED <<successful_sizes, pc>>
  /\ UNCHANGED <<builder, drta, model, optimized_transitions, merging, suffixing, apta, lists, automaton>>

\* one round of "while sizes <= max_sizes"
Round(answer) ==
  /\ pc = "search"
  /\ sizes <= max_sizes
  /\ result' = answer
  /\ IF answer = "sat"
     THEN successful_sizes' = sizes /\ pc' = "returned" /\ sizes' = sizes
     ELSE sizes' = sizes + 1 /\ UNCHANGED <<successful_sizes, pc>>
  /\ UNCHANGED <<builder, drta, model, optimized_transitions, merging, suffixing, apta, lists, automaton>>

\* the else branch of the loop and the return
LoopEnd ==
  /\ pc = "search"
  /\ sizes > max_sizes
  /\ pc' = "returned"
  /\ UNCHANGED <<builder, learner, merging, suffixing, apta, result, lists, automaton>>

NextSearch ==
  \/ \E answer \in {"sat", "unsat"} : Round(answer)
  \/ LoopEnd

SpecSearch == InitSearch /\ [][NextSearch]_vars /\ WF_vars(NextSearch)

\* ------------------------------------------------------------------ merging two regions
\* the regions add_suffix builds, with bounds up to MaxBound
SuffixRegions ==
  UNION {{Region(t, t, TRUE, TRUE), Region(t, t + 1, FALSE, FALSE),
          Region(t, Inf, TRUE, FALSE), Region(t, Inf, FALSE, FALSE)} : t \in 0..MaxBound}

InitRegions ==
  /\ regions = <<>>
  /\ gaps = <<>>
  /\ automaton = DRTA
  /\ pc = "regions"
  /\ region1 \in SuffixRegions
  /\ region2 \in SuffixRegions
  /\ merged_region = NoRegion
  /\ max_time = 0
  /\ all_samples = <<>>
  /\ rta = create_node(Min3RTA0)
  /\ drta = NoDRTA
  /\ sizes = 2
  /\ successful_sizes = None
  /\ model = NoModel
  /\ optimized_transitions = <<>>
  /\ S_positive = <<>>
  /\ S_negative = <<>>
  /\ Regions = <<>>
  /\ T = TAPTA
  /\ omega_i = 0
  /\ result = "none"
  /\ suffix_time = 0
  /\ suffix_region = NoRegion

\* merged_region = self._merge_regions(existing_region, region)
Merge ==
  /\ pc = "regions"
  /\ merged_region' = _merge_regions(region1, region2)
  /\ pc' = "merged"
  /\ UNCHANGED <<builder, learner, region1, region2, suffixing, apta, result, lists, automaton>>

NextRegions == Merge

SpecRegions == InitRegions /\ [][NextRegions]_vars

\* ------------------------------------------------------------------ the region of a suffix
\* times n/FineDen at, just after, halfway to and just before each whole number
FineTimes ==
  {k * FineDen + d : k \in 0..MaxWhole, d \in {0, 1, FineDen \div 2, FineDen - 1}}

InitSuffix ==
  /\ regions = <<>>
  /\ gaps = <<>>
  /\ automaton = DRTA
  /\ pc = "suffix"
  /\ max_time \in FineTimes
  /\ suffix_time \in {t \in FineTimes : t <= max_time}
  /\ suffix_region = NoRegion
  /\ all_samples = <<>>
  /\ rta = create_node(Min3RTA0)
  /\ drta = NoDRTA
  /\ sizes = 2
  /\ successful_sizes = None
  /\ model = NoModel
  /\ optimized_transitions = <<>>
  /\ S_positive = <<>>
  /\ S_negative = <<>>
  /\ Regions = <<>>
  /\ T = TAPTA
  /\ omega_i = 0
  /\ result = "none"
  /\ region1 = NoRegion
  /\ region2 = NoRegion
  /\ merged_region = NoRegion

\* one round of the loop of add_suffix, up to the region
ChooseRegion ==
  /\ pc = "suffix"
  /\ suffix_region' = SuffixRegionAt(suffix_time, max_time, FineDen)
  /\ pc' = "suffixed"
  /\ UNCHANGED <<builder, learner, merging, suffix_time, apta, result, lists, automaton>>

NextSuffix == ChooseRegion

SpecSuffix == InitSuffix /\ [][NextSuffix]_vars

\* ------------------------------------------------------------------ building the timed APTA
APTATraces == UNION {[1..n -> Symbols \X (0..MaxTau)] : n \in 0..MaxLen}

\* the state of BuildTimedAPTA when the region list is built and T is fresh
InitAPTA ==
  /\ regions = <<>>
  /\ gaps = <<>>
  /\ automaton = DRTA
  /\ pc = "apta"
  /\ S_positive \in UNION {[1..n -> APTATraces] : n \in 0..MaxPositive}
  /\ S_negative \in UNION {[1..n -> APTATraces] : n \in 0..MaxNegative}
  /\ Regions = RegionList(Kappa(S_positive \o S_negative))
  /\ T = TAPTA
  /\ omega_i = 1
  /\ result = "none"
  /\ max_time = 0
  /\ all_samples = <<>>
  /\ rta = create_node(Min3RTA0)
  /\ drta = NoDRTA
  /\ sizes = 2
  /\ successful_sizes = None
  /\ model = NoModel
  /\ optimized_transitions = <<>>
  /\ region1 = NoRegion
  /\ region2 = NoRegion
  /\ merged_region = NoRegion
  /\ suffix_time = 0
  /\ suffix_region = NoRegion

\* one round of "for omega in S"; "omega in S_positive" looks the trace up by value
ProcessTrace ==
  /\ pc = "apta"
  /\ omega_i <= Len(S_positive \o S_negative)
  /\ LET omega == (S_positive \o S_negative)[omega_i]
     IN T' = ProcessOmega(T, Regions, omega, InSeq(omega, S_positive))
  /\ omega_i' = omega_i + 1
  /\ UNCHANGED <<pc, builder, learner, merging, suffixing, S_positive, S_negative, Regions, result, lists, automaton>>

\* return T
Return ==
  /\ pc = "apta"
  /\ omega_i > Len(S_positive \o S_negative)
  /\ pc' = "apta_done"
  /\ UNCHANGED <<builder, learner, merging, suffixing, apta, result, lists, automaton>>

NextAPTA == ProcessTrace \/ Return

SpecAPTA == InitAPTA /\ [][NextAPTA]_vars

\* ------------------------------------------------------------------ the DRTA container
\* the states, symbols and regions the calls are made with
MaxStates == 3
MaxEdges == 2
StateIds == 0..(MaxStates - 1)
TimeRegions == {Region(0, 1, TRUE, FALSE), Region(1, Inf, TRUE, FALSE)}

InitDRTA ==
  /\ pc = "drta"
  /\ automaton = DRTA
  /\ regions = <<>>
  /\ gaps = <<>>
  /\ max_time = 0
  /\ all_samples = <<>>
  /\ rta = create_node(Min3RTA0)
  /\ drta = NoDRTA
  /\ sizes = 2
  /\ successful_sizes = None
  /\ model = NoModel
  /\ optimized_transitions = <<>>
  /\ region1 = NoRegion
  /\ region2 = NoRegion
  /\ merged_region = NoRegion
  /\ suffix_time = 0
  /\ suffix_region = NoRegion
  /\ S_positive = <<>>
  /\ S_negative = <<>>
  /\ Regions = <<>>
  /\ T = TAPTA
  /\ omega_i = 0
  /\ result = "none"

rest == <<pc, builder, learner, merging, suffixing, apta, result, lists>>

AddState(is_accepting, is_rejecting, is_initial) ==
  /\ pc = "drta"
  /\ automaton.next_state_id < MaxStates
  /\ automaton' = add_state(automaton, is_accepting, is_rejecting, is_initial)
  /\ UNCHANGED rest

SetStateAccepting(state_id, is_accepting) ==
  /\ pc = "drta"
  /\ InGraph(automaton, state_id)
  /\ automaton' = set_state_accepting(automaton, state_id, is_accepting)
  /\ UNCHANGED rest

SetStateRejecting(state_id, is_rejecting) ==
  /\ pc = "drta"
  /\ InGraph(automaton, state_id)
  /\ automaton' = set_state_rejecting(automaton, state_id, is_rejecting)
  /\ UNCHANGED rest

SetInitialState(state_id) ==
  /\ pc = "drta"
  /\ InGraph(automaton, state_id)
  /\ automaton' = set_initial_state(automaton, state_id)
  /\ UNCHANGED rest

AddTransition(source_id, target_id, symbol, time_region) ==
  /\ pc = "drta"
  /\ InGraph(automaton, source_id)
  /\ InGraph(automaton, target_id)
  /\ Len(automaton.graph.edges) < MaxEdges
  /\ automaton' = DRTA_add_transition(automaton, source_id, target_id, symbol, time_region)
  /\ UNCHANGED rest

RemoveState(state_id) ==
  /\ pc = "drta"
  /\ automaton' = remove_state(automaton, state_id)
  /\ UNCHANGED rest

NextDRTA ==
  \/ \E is_accepting, is_rejecting, is_initial \in BOOLEAN :
       AddState(is_accepting, is_rejecting, is_initial)
  \/ \E state_id \in StateIds, is_accepting \in BOOLEAN :
       SetStateAccepting(state_id, is_accepting)
  \/ \E state_id \in StateIds, is_rejecting \in BOOLEAN :
       SetStateRejecting(state_id, is_rejecting)
  \/ \E state_id \in StateIds : SetInitialState(state_id)
  \/ \E source_id, target_id \in StateIds, symbol \in Symbols, time_region \in TimeRegions :
       AddTransition(source_id, target_id, symbol, time_region)
  \/ \E state_id \in StateIds : RemoveState(state_id)

SpecDRTA == InitDRTA /\ [][NextDRTA]_vars

\* ------------------------------------------------------------------ lists of regions
\* find_gaps and merge_adjacent_regions_protected on the sorted lists of at most
\* MaxRegions regions with whole bounds up to MaxBound
MaxRegions == 2
IntervalRegions ==
  {r \in {Region(lower, upper, lower_closed, upper_closed) :
             lower \in 0..(MaxBound - 1), upper \in (1..MaxBound) \cup {Inf},
             lower_closed \in BOOLEAN, upper_closed \in BOOLEAN} :
     NonEmptyRegion(r) /\ (r.upper = Inf => ~r.upper_inclusive)}

SortedLists ==
  {l \in UNION {[1..n -> IntervalRegions] : n \in 0..MaxRegions} : sorted(l) = l}

\* protected_points: point_value -> point_color
ProtectedPoints ==
  {<<>>} \cup {<<[key |-> point_value, val |-> point_color]>> :
                 point_value \in 0..MaxBound, point_color \in 0..1}

InitIntervals ==
  /\ pc = "intervals"
  /\ regions \in SortedLists
  /\ gaps = <<>>
  /\ automaton = DRTA
  /\ max_time = 0
  /\ all_samples = <<>>
  /\ rta = create_node(Min3RTA0)
  /\ drta = NoDRTA
  /\ sizes = 2
  /\ successful_sizes = None
  /\ model = NoModel
  /\ optimized_transitions = <<>>
  /\ region1 = NoRegion
  /\ region2 = NoRegion
  /\ merged_region = NoRegion
  /\ suffix_time = 0
  /\ suffix_region = NoRegion
  /\ S_positive = <<>>
  /\ S_negative = <<>>
  /\ Regions = <<>>
  /\ T = TAPTA
  /\ omega_i = 0
  /\ result = "none"

FindGaps ==
  /\ pc = "intervals"
  /\ gaps' = find_gaps(regions)
  /\ pc' = "gaps"
  /\ UNCHANGED <<builder, learner, merging, suffixing, apta, result, regions, automaton>>

MergeAdjacent(protected_points, target_color) ==
  /\ pc = "intervals"
  /\ regions' = merge_adjacent_regions_protected(regions, protected_points, target_color)
  /\ pc' = "merged"
  /\ UNCHANGED <<builder, learner, merging, suffixing, apta, result, gaps, automaton>>

NextIntervals ==
  \/ FindGaps
  \/ \E protected_points \in ProtectedPoints, target_color \in 0..1 :
       MergeAdjacent(protected_points, target_color)

SpecIntervals == InitIntervals /\ [][NextIntervals]_vars

\* ------------------------------------------------------------------ debug_min3rta.py
\* simulate_sample of verify_samples_with_min3rta: <<found every transition, final node>>
RECURSIVE simulate_sample(_, _, _, _, _)
simulate_sample(min_3rta, sample, i, current_node_id, mt) ==
  IF i > Len(sample) THEN [found |-> TRUE, node |-> current_node_id]
  ELSE LET trans == NodeOf(min_3rta, current_node_id).transitions
           region_str == str(SuffixRegion(sample[i][2], mt))
           hits == {j \in 1..Len(trans) :
                      trans[j].symbol = sample[i][1] /\ str(trans[j].region) = region_str}
       IN IF hits = {} THEN [found |-> FALSE, node |-> current_node_id]
          ELSE simulate_sample(min_3rta, sample, i + 1,
                               trans[CHOOSE j \in hits : \A h \in hits : j <= h].target, mt)

\* ------------------------------------------------------------------ claims on the build
Canonical(r) == {r.register[i].key : i \in {j \in 1..Len(r.register) :
                                              r.register[j].val = r.register[j].key}}

ListOrders(s) ==
  {[i \in 1..Len(s) |-> s[f[i]]] :
     f \in {g \in [1..Len(s) -> 1..Len(s)] :
              \A i, j \in 1..Len(s) : g[i] = g[j] => i = j}}

\* C8: build_from_samples gives the same Min-3RTA (node ids, transitions, flags,
\* children order, register) for every order of the positive list and every order
\* of the negative list.
C8_OrderInsensitive ==
  pc = "built" =>
    \A p \in ListOrders(positive_samples), q \in ListOrders(negative_samples) :
       build_from_samples(p, q) = rta

C8_Witness ==
  /\ pc = "built"
  /\ Len(negative_samples) >= 1
  /\ \E i, j \in 1..Len(positive_samples) :
        /\ positive_samples[i] # positive_samples[j]
        /\ Len(positive_samples[i]) >= 1
        /\ Len(positive_samples[j]) >= 1

RegionSeq(sample, mt) == [i \in 1..Len(sample) |->
                            <<sample[i][1], str(SuffixRegion(sample[i][2], mt))>>]

NoLabelClash(all, mt) ==
  \A i, j \in 1..Len(all) :
     all[i].type # all[j].type => RegionSeq(all[i].sample, mt) # RegionSeq(all[j].sample, mt)

\* C9: when no positive and negative sample share their sequence of (symbol,
\* insertion region) pairs, the walk of every sample by region string finds every
\* transition and ends at a node that is accepting exactly for the positive samples.
C9_SamplesWalk ==
  (pc = "built" /\ NoLabelClash(all_samples, max_time)) =>
    \A i \in 1..Len(all_samples) :
       LET w == simulate_sample(rta, all_samples[i].sample, 1, root, max_time)
       IN w.found /\ (NodeOf(rta, w.node).is_accepting <=> all_samples[i].type = ACCEPT)

\* ------------------------------------------------------------------ claims on merging
\* C10: when _merge_regions returns a region, that region contains a time exactly
\* when one of the two merged regions contains it.
C10_MergeIsUnion ==
  (pc = "merged" /\ merged_region # NoRegion) =>
    \A t \in 0..(2 * (MaxBound + 2)) :
       containsAt(merged_region, t, 2)
         <=> (containsAt(region1, t, 2) \/ containsAt(region2, t, 2))

\* C11: _merge_regions is idempotent and commutative: merging a region with itself
\* gives that region, and merging in the other order gives the same result (both
\* None, or equal in all four fields).
C11_MergeIdempotentCommutative ==
  pc = "merged" =>
    /\ _merge_regions(region2, region1) = merged_region
    /\ region1 = region2 => merged_region = region1

C11_Witness ==
  /\ pc = "merged"
  /\ region1 # region2
  /\ merged_region # NoRegion
  /\ region1.lower = region2.lower
  /\ region1.lower_inclusive # region2.lower_inclusive

\* ------------------------------------------------------------------ claims on the learner
\* Region bounds are whole numbers, so a grid of half units up to one unit past the
\* largest bound meets every point and every open interval between two bounds.
GridTimes == 0..(2 * (MaxT \div Den + 2))

\* the target colours of a (source colour, symbol) group whose regions hold t/2
TargetsAt(group, t) ==
  {group.val[i].key : i \in {j \in 1..Len(group.val) :
      \E n \in 1..Len(group.val[j].val) : containsAt(group.val[j].val[n], t, 2)}}

GroupOf(table, color_from, symbol) ==
  table[CHOOSE g \in 1..Len(table) : table[g].key = <<color_from, symbol>>]

\* no trace is listed both as a positive and as a negative sample
LabelsDistinct(all) ==
  \A i, j \in 1..Len(all) : all[i].type # all[j].type => all[i].sample # all[j].sample

\* C1: when test_encoding finds a model, the optimised table run from colour 0
\* accepts every positive sample and no negative sample (checked for the sample
\* sets that give no trace two labels).
C1_SamplesClassified ==
  (pc = "done" /\ LabelsDistinct(all_samples)) =>
    verify_drta_correctness(optimized_transitions, model.z,
                            positive_samples, negative_samples, drta.alphabet)

\* C2: in every (source colour, symbol) group of the optimised table every time
\* t >= 0, t = 0 included, lies in a region of some target colour (checked for the
\* groups leaving colour 0, where the run of every sample starts).
C2_GroupsCover ==
  pc = "done" =>
    \A g \in 1..Len(optimized_transitions) : \A t \in GridTimes :
       optimized_transitions[g].key[1] = 0 =>
         TargetsAt(optimized_transitions[g], t) # {}

\* C3: in every (source colour, symbol) group of the optimised table no time is
\* matched by regions of two different target colours.
C3_TargetsDisjoint ==
  pc = "done" =>
    \A g \in 1..Len(optimized_transitions) : \A t \in GridTimes :
       Cardinality(TargetsAt(optimized_transitions[g], t)) <= 1

C3_Witness ==
  /\ pc = "done"
  /\ \E g \in 1..Len(optimized_transitions) :
        /\ Len(optimized_transitions[g].val) >= 2
        /\ \A i \in 1..Len(optimized_transitions[g].val) :
              optimized_transitions[g].val[i].val # <<>>

C6_MinimalFromOne ==
  pc = "done" =>
    \A k \in 1..(successful_sizes - 1) : ~generate_clauses(drta, k, positive_samples)

\* C6: successful_sizes is the least number of colours from 2 on that has a
\* satisfying colouring; a colouring with one colour is never tried.
C6_MinimalFromTwo ==
  pc = "done" =>
    /\ successful_sizes >= 2
    /\ Satisfies(drta, successful_sizes, positive_samples, model)
    /\ \A k \in 2..(successful_sizes - 1) : ~generate_clauses(drta, k, positive_samples)

C6_Witness == pc = "done" /\ successful_sizes = 3

\* C7: with a positive sample every model makes colour 0 accepting; with none the
\* constraint is absent and some model leaves colour 0 non-accepting.
C7_ColourZero ==
  (pc = "encoding" /\ sizes <= MaxSizes) =>
    LET found == Models(drta, sizes, positive_samples)
    IN /\ Len(positive_samples) > 0 => \A m \in found : 0 \in m.z
       /\ (Len(positive_samples) = 0 /\ found # {}) => \E m \in found : 0 \notin m.z

C7_Witness ==
  /\ pc = "done"
  /\ Len(positive_samples) > 0
  /\ 0 \in model.z
  /\ model.z # range(successful_sizes)

\* C12: in every satisfying model every node of the DRTA has exactly one colour.
C12_OneColourPerNode ==
  pc = "done" =>
    \A n \in NodeSet(drta) : Cardinality(model.x[n]) = 1

\* two regions with a common point
SharePoint(r1, r2) == \E t \in GridTimes : containsAt(r1, t, 2) /\ containsAt(r2, t, 2)

\* C13: in every satisfying model no two true transition variables of one source
\* colour and symbol lead to different colours through regions that share a point
\* (the same region included), and _regions_may_intersect is true for every pair of
\* region strings of the DRTA that share a point.
C13_Deterministic ==
  pc = "done" =>
    /\ \A v, w \in model.y :
         (v[1] = w[1] /\ v[3] = w[3] /\ v[4] # w[4])
           => ~SharePoint(parse_region(v[2]), parse_region(w[2]))
    /\ \A i, j \in 1..Len(drta.edge_labels) :
         SharePoint(parse_region(drta.edge_labels[i].region_str),
                    parse_region(drta.edge_labels[j].region_str))
           => _regions_may_intersect(drta.edge_labels[i].region_str,
                                     drta.edge_labels[j].region_str)

C13_Witness ==
  /\ pc = "done"
  /\ \E v, w \in model.y : v[1] = w[1] /\ v[3] = w[3] /\ v[4] # w[4]
  /\ \E i, j \in 1..Len(drta.edge_labels) :
        /\ drta.edge_labels[i].region_str # drta.edge_labels[j].region_str
        /\ SharePoint(parse_region(drta.edge_labels[i].region_str),
                      parse_region(drta.edge_labels[j].region_str))

\* the nodes convert_to_3DRTA finds both accepting and rejecting
ConflictNodes ==
  LET ids == 0..(Len(rta.nodes) - 1)
  IN {get_real_node_id(rta, n) : n \in {v \in ids : NodeOf(rta, v).is_accepting}}
       \cap {get_real_node_id(rta, n) : n \in {v \in ids : NodeOf(rta, v).is_rejecting}}

positive_reaching(q) ==
  SelectSeq(positive_samples, LAMBDA sample : _sample_reaches_node(rta, sample, q))
negative_reaching(q) ==
  SelectSeq(negative_samples, LAMBDA sample : _sample_reaches_node(rta, sample, q))

\* mean of the first sequence > 1.5 * mean of the second, both non-empty
MeanGreater(pos, neg) ==
  /\ pos # <<>>
  /\ neg # <<>>
  /\ 2 * SumSeq(pos) * Len(neg) > 3 * SumSeq(neg) * Len(pos)

KeptAccepting(q) == q \in drta.accepting /\ q \notin drta.rejecting
KeptRejecting(q) == q \in drta.rejecting /\ q \notin drta.accepting

FourCases(t, is_max) ==
  IF t % FineDen = 0
  THEN IF is_max THEN Region(t \div FineDen, Inf, TRUE, FALSE)
       ELSE Region(t \div FineDen, t \div FineDen, TRUE, TRUE)
  ELSE IF is_max THEN Region(t \div FineDen, Inf, FALSE, FALSE)
       ELSE Region(t \div FineDen, t \div FineDen + 1, FALSE, FALSE)

\* less than 0.001 apart
Near(t, m) == 1000 * (IF t >= m THEN t - m ELSE m - t) < FineDen

\* C15: add_suffix labels the new transition for timestamp t with [t,oo) when t is a
\* whole number equal to the largest timestamp, [t,t] for any other whole number,
\* (floor t,oo) when t is not whole and equal to the largest timestamp, and
\* (floor t, floor t + 1) otherwise.
C15_SuffixRegionExact ==
  pc = "suffixed" => suffix_region = FourCases(suffix_time, suffix_time = max_time)

\* C15 as the code has it: "equal to the largest timestamp" is "less than 0.001 away
\* from the largest timestamp".
C15_SuffixRegionTolerance ==
  pc = "suffixed" => suffix_region = FourCases(suffix_time, Near(suffix_time, max_time))

C15_Witness ==
  /\ pc = "suffixed"
  /\ suffix_time # max_time
  /\ Near(suffix_time, max_time)
  /\ suffix_region.upper = Inf

\* ------------------------------------------------------------------ claims on BuildTimedAPTA
\* the timestamps of the traces of S
Timestamps(S) == UNION {{S[i][j][2] : j \in 1..Len(S[i])} : i \in 1..Len(S)}

\* C16: every timestamp of the samples lies in exactly one region of the list
\* [0,0], (0,1), [1,1], ..., [kappa,kappa], (kappa,inf), so the lookup never yields
\* None, and no transition of the APTA is labelled with None.
C16_OneRegionPerTimestamp ==
  pc \in {"apta", "apta_done"} =>
    /\ \A tau \in Timestamps(S_positive \o S_negative) :
         /\ Cardinality({j \in 1..Len(Regions) : contains(Regions[j], tau)}) = 1
         /\ FindRegion(Regions, tau) # NoRegion
    /\ \A q \in 1..Len(T.states) : \A j \in 1..Len(T.states[q].transitions) :
         InSeq(T.states[q].transitions[j].region, Regions)

C16_Witness ==
  /\ pc = "apta_done"
  /\ Len(T.states) >= 3
  /\ \E tau \in Timestamps(S_positive \o S_negative) : tau % Den # 0
  /\ \E tau \in Timestamps(S_positive \o S_negative) :
        tau > 0 /\ tau = Den * Kappa(S_positive \o S_negative)

\* the state at which a trace ends in the finished APTA
RECURSIVE EndState(_, _, _)
EndState(omega, i, q) ==
  IF i > Len(omega) \/ q = None THEN q
  ELSE EndState(omega, i + 1, delta(T, q, omega[i][1], FindRegion(Regions, omega[i][2])))

\* C17: a state at which traces end finally carries the label of the one processed
\* last (the positive list is processed before the negative list), a trace that is
\* in both lists included.
C17_LastWriteWins ==
  pc = "apta_done" =>
    LET S == S_positive \o S_negative
    IN \A i \in 1..Len(S) :
         LET q == EndState(S[i], 1, 0)
             last == CHOOSE j \in 1..Len(S) :
                       /\ EndState(S[j], 1, 0) = q
                       /\ \A k \in 1..Len(S) : EndState(S[k], 1, 0) = q => k <= j
         IN IF last <= Len(S_positive)
            THEN T.states[q + 1].is_accepting /\ ~T.states[q + 1].is_rejecting
            ELSE T.states[q + 1].is_rejecting /\ ~T.states[q + 1].is_accepting

\* ------------------------------------------------------------------ claims on the simulator
\* the target colours that the table gives colour c on symbol_id at timestamp
ColoursAt(table, c, symbol_id, timestamp) ==
  UNION {{table[g].val[k].key :
            k \in {n \in 1..Len(table[g].val) :
                     \E r \in 1..Len(table[g].val[n].val) :
                        contains(table[g].val[n].val[r], timestamp)}} :
           g \in {h \in 1..Len(table) : table[h].key = <<c, symbol_id>>}}

\* the colour a trace ends in when every step has exactly one target colour, else None
RECURSIVE UniqueRun(_, _, _, _, _)
UniqueRun(table, alphabet, sample, i, c) ==
  IF i > Len(sample) THEN c
  ELSE IF sample[i][1] \notin DOMAIN alphabet THEN None
  ELSE LET cs == ColoursAt(table, c, alphabet[sample[i][1]], sample[i][2])
       IN IF Cardinality(cs) # 1 THEN None
          ELSE UniqueRun(table, alphabet, sample, i + 1, CHOOSE x \in cs : TRUE)

C19_NonLastChildrenRegistered ==
  pc \in {"adding", "built"} =>
    \A p \in 0..(Len(rta.nodes) - 1) :
       LET children == NodeOf(rta, p).children
       IN \A i \in 1..(Len(children) - 1) :
            (children[i] # root /\ children[i] # children[Len(children)])
              => InRegister(rta, children[i])

\* the register entry the final replace_or_register finds equivalent to the last
\* child of the root, None without one
RootHit ==
  IF ~has_children(NodeOf(rta, root)) THEN None
  ELSE LET child_node == last_child(NodeOf(rta, root))
           r1 == IF has_children(NodeOf(rta, child_node))
                 THEN replace_or_register(rta, child_node, {root}, 1)
                 ELSE rta
       IN FirstEquivalent(r1, child_node)

\* C20: when the final replace_or_register finds a registered node equivalent to the
\* last child of the root, with the same labels, then afterwards the register maps
\* the child to that node, no transition of the root targets the child, and that
\* node has the child's place at the end of the root's children.
C20_HitIsRecorded ==
  [][(pc = "adding" /\ pc' = "built" /\ RootHit # None) =>
       LET child_node == last_child(NodeOf(rta, root))
           after == NodeOf(rta', root)
       IN /\ InRegister(rta', child_node)
          /\ RegisterGet(rta', child_node) = RootHit
          /\ \A j \in 1..Len(after.transitions) : after.transitions[j].target # child_node
          /\ after.children[Len(after.children)] = RootHit]_vars

\* the Min-3RTA as the final replace_or_register has it when it searches the
\* register: after the recursion into the last child of the root
RootBefore ==
  LET child_node == last_child(NodeOf(rta, root))
  IN IF has_children(NodeOf(rta, child_node))
     THEN replace_or_register(rta, child_node, {root}, 1)
     ELSE rta

\* the final replace_or_register takes the branch "Reverting merge"
RootRolledBack ==
  /\ RootHit # None
  /\ LET child_node == last_child(NodeOf(rta, root))
         r2 == replace_last_child(RootBefore, root, RootHit)
         r3 == [r2 EXCEPT !.register = RegisterSet(@, child_node, RootHit)]
     IN ~Truthy(_merge_node_transitions(r3, child_node, RootHit).result)

\* C21: when the final replace_or_register rolls a register hit back, the
\* transitions and the children list of the root, the register and the transitions
\* of the registered candidate are afterwards what they were before the replacement.
C21_RollbackRestores ==
  [][(pc = "adding" /\ pc' = "built" /\ RootRolledBack) =>
       /\ NodeOf(rta', root).transitions = NodeOf(RootBefore, root).transitions
       /\ NodeOf(rta', root).children = NodeOf(RootBefore, root).children
       /\ rta'.register = RootBefore.register
       /\ NodeOf(rta', RootHit).transitions = NodeOf(RootBefore, RootHit).transitions]_vars

\* C22: after build_from_samples no node has two transitions on one symbol to the
\* same canonical target whose regions are adjacent or overlapping.
C22_AdjacentRegionsMerged ==
  pc = "built" =>
    \A n \in 0..(Len(rta.nodes) - 1) :
       LET trans == NodeOf(rta, n).transitions
       IN \A i, j \in 1..Len(trans) :
            (i # j /\ trans[i].symbol = trans[j].symbol
                   /\ get_real_node_id(rta, trans[i].target)
                        = get_real_node_id(rta, trans[j].target))
              => ~_are_regions_adjacent_or_overlapping(trans[i].region, trans[j].region)

\* ------------------------------------------------------------------ claims on the search loop
\* C23: the colour counts are tried from 2 upwards one by one, a count is left only
\* after unsat, the first sat ends the loop with that count as successful_sizes, and
\* when every count up to max_sizes is unsat the loop ends after max_sizes with
\* successful_sizes None; the loop always ends.
C23_SearchOrder ==
  /\ [][sizes' = sizes \/ (sizes' = sizes + 1 /\ result' = "unsat")]_vars
  /\ [][result' = "sat" => (pc' = "returned" /\ successful_sizes' = sizes')]_vars
  /\ [](pc = "search" => (successful_sizes = None /\ result # "sat" /\ sizes >= 2))
  /\ []((pc = "returned" /\ result # "sat") =>
          (successful_sizes = None /\ sizes = max_sizes + 1))
  /\ <>(pc = "returned")

C23_Witness ==
  /\ pc = "returned"
  /\ result = "unsat"
  /\ successful_sizes = None
  /\ sizes = max_sizes + 1

\* ------------------------------------------------------------------ claims on the conversion
\* the tuples (canonical source, canonical target, symbol id, region string) of the
\* transitions of the Min-3RTA
TransitionTuples ==
  UNION {{[source |-> get_real_node_id(rta, u),
           target |-> get_real_node_id(rta, NodeOf(rta, u).transitions[j].target),
           symbol |-> drta.alphabet[NodeOf(rta, u).transitions[j].symbol],
           region_str |-> str(NodeOf(rta, u).transitions[j].region)] :
            j \in 1..Len(NodeOf(rta, u).transitions)} : u \in 0..(Len(rta.nodes) - 1)}

\* canonical ids of the nodes with is_accepting, and with is_rejecting
Acc0 == {get_real_node_id(rta, n) : n \in {v \in 0..(Len(rta.nodes) - 1) : NodeOf(rta, v).is_accepting}}
Rej0 == {get_real_node_id(rta, n) : n \in {v \in 0..(Len(rta.nodes) - 1) : NodeOf(rta, v).is_rejecting}}

\* C24: the edges of the TDRTA are exactly the tuples (canonical source, canonical
\* target, symbol id, region string) of the Min-3RTA transitions, each once, and
\* apart from the nodes in conflict the accepting and rejecting sets are the
\* canonical ids of the nodes with is_accepting and with is_rejecting.
C24_EdgesAndLabels ==
  pc = "encoding" =>
    /\ {drta.edge_labels[i] : i \in 1..Len(drta.edge_labels)} = TransitionTuples
    /\ \A i, j \in 1..Len(drta.edge_labels) :
         drta.edge_labels[i] = drta.edge_labels[j] => i = j
    /\ drta.accepting \subseteq Acc0
    /\ drta.rejecting \subseteq Rej0
    /\ Acc0 \ drta.accepting \subseteq Rej0
    /\ Rej0 \ drta.rejecting \subseteq Acc0

C24_Witness ==
  /\ pc = "encoding"
  /\ Len(drta.edge_labels) >= 3
  /\ \E i \in 1..Len(drta.edge_labels) : drta.edge_labels[i].source # root
  /\ drta.accepting # {}
  /\ drta.rejecting # {}

\* ------------------------------------------------------------------ claims on the register
\* the nodes registered as their own canonical representative
SelfRegistered(min_3rta) ==
  {id \in 0..(Len(min_3rta.nodes) - 1) : InRegister(min_3rta, id) /\ RegisterGet(min_3rta, id) = id}

\* C25: a node registered as its own canonical representative is never removed
\* from the register by a later add or replace_or_register call.
C25_SelfRegisteredStays ==
  [][\A id \in SelfRegistered(rta) : InRegister(rta', id)]_vars

\* ------------------------------------------------------------------ claims on reachability
\* the vertices of the TDRTA that a path of TDRTA edges reaches from the set seen
RECURSIVE ReachableFrom(_)
ReachableFrom(seen) ==
  LET more == {drta.edge_labels[i].target :
                 i \in {e \in 1..Len(drta.edge_labels) : drta.edge_labels[e].source \in seen}}
  IN IF more \subseteq seen THEN seen ELSE ReachableFrom(seen \cup more)

\* C26: every vertex of the TDRTA returned by build_min_3rta is reachable from the
\* root along TDRTA edges.
C26_AllReachable ==
  pc = "encoding" =>
    \A i \in 1..Len(drta.nodes) : drta.nodes[i] \in ReachableFrom({root})

\* ------------------------------------------------------------------ claims on the DRTA container
\* C29: after any sequence of add_state, set_state_accepting, set_state_rejecting,
\* set_initial_state, add_transition and remove_state calls no state is both
\* accepting and rejecting, both sets hold only states of the graph, and root is
\* None or a state of the graph.
C29_ContainerInvariant ==
  pc = "drta" =>
    /\ automaton.accepting_states \cap automaton.rejecting_states = {}
    /\ automaton.accepting_states \subseteq GraphIds(automaton)
    /\ automaton.rejecting_states \subseteq GraphIds(automaton)
    /\ (automaton.root = None \/ automaton.root \in GraphIds(automaton))

\* ------------------------------------------------------------------ claims on lists of regions
\* the points of [0, MaxBound + 1], in half units, that a region of the list holds
HalfGrid == 0..(2 * MaxBound + 2)
CoveredPoints(list) == {t \in HalfGrid : \E i \in 1..Len(list) : containsAt(list[i], t, 2)}

\* C27: for a list of regions sorted by lower bound, closed before open, the union
\* of the regions find_gaps returns is exactly the set of points of [0, inf) that
\* no region of the list covers, the point 0 and lists with a nested region included.
C27_GapsAreComplement ==
  pc = "gaps" => CoveredPoints(gaps) = HalfGrid \ CoveredPoints(regions)

\* C30: merge_adjacent_regions_protected leaves the covered point set of a sorted
\* list as it was: the union of the regions after the call is the union before it.
C30_MergeKeepsUnion ==
  [][(pc = "intervals" /\ pc' = "merged") => CoveredPoints(regions') = CoveredPoints(regions)]_vars

\* ------------------------------------------------------------------ claims on the labels
\* C28: in the TDRTA of convert_to_3DRTA the accepting and the rejecting set are
\* disjoint: a node that was in both before the conflict resolution is in exactly
\* one of them afterwards, and a node not in conflict keeps its membership.
C28_LabelsDisjoint ==
  pc = "encoding" =>
    /\ drta.accepting \cap drta.rejecting = {}
    /\ \A q \in Acc0 \cap Rej0 : (q \in drta.accepting) # (q \in drta.rejecting)
    /\ \A q \in 0..(Len(rta.nodes) - 1) :
         q \notin Acc0 \cap Rej0 =>
           /\ (q \in drta.accepting) = (q \in Acc0)
           /\ (q \in drta.rejecting) = (q \in Rej0)

C28_Witness ==
  /\ pc = "encoding"
  /\ Acc0 \cap Rej0 # {}
  /\ \E q \in Acc0 \cap Rej0 : q \in drta.accepting
  /\ \E q \in (Acc0 \cup Rej0) \ (Acc0 \cap Rej0) : q \in drta.accepting \cup drta.rejecting

====
